---- MODULE Spec2Model ----
(***************************************************************************)
(* A model of the Cisco-style CLI simulator of                             *)
(* src/Made-with-Gemini/cisco_sim-go/cisco_sim.go: the command registry,   *)
(* the abbreviation resolver, the mode state machine and the command       *)
(* handlers, each translated from its Go function.  Text is kept as TLA+   *)
(* strings and the string functions of the Go code (ToLower, HasPrefix,    *)
(* Fields, the regular expressions, net.ParseIP) are computed character by *)
(* character, over the characters U+0000..U+00FF, the ones a TLA+ string   *)
(* can hold.  RunLine and BasicLine are an iteration of the two read       *)
(* loops, run and runBasic: they trim the line, record it in the command   *)
(* history, call sim.processCommand and print the diagnostic of its error. *)
(***************************************************************************)
EXTENDS Integers, Sequences, FiniteSets, TLC

VARIABLES
    sim,         \* the CiscoDeviceSimulator object (its fields)
    line,        \* the input line read last, as it was read
    err,         \* the error processCommand returned for it
    out,         \* the lines the step printed on standard output after its read
    logged,      \* the lines the step wrote to the log output (standard error)
    resolved,    \* the name of the command the resolver returned ("" when none)
    invoked,     \* the handler that was called ("" when none)
    terminated,  \* the process has ended (os.Exit, log.Fatalf or main returned)
    op           \* what the last step was: a line read and handled by run
                 \* ("Readline"), a read of run that gave no line ("run"), a
                 \* step of runBasic, or a call of findCommandByAbbreviation

vars == <<sim, line, err, out, logged, resolved, invoked, terminated, op>>

(***************************************************************************)
(* Bounds of the model.                                                    *)
(***************************************************************************)
\* interface lines name the ports 0/0 .. 0/MaxPort
MaxPort == 0

\* the longest command history the specifications of SpecRun, SpecMarker and
\* SpecBasic build
MaxHistory == 4

\* the lines a session reads beside the lines of its script
MaxFree == 1

(***************************************************************************)
(* Characters and the string functions of package strings.                 *)
(***************************************************************************)
\* the printable characters of codes 32..95 and of codes 97..126, in order
AsciiLow == " !\"#$%&'()*+,-./0123456789:;<=>?@ABCDEFGHIJKLMNOPQRSTUVWXYZ[\\]^_"

AsciiHigh == "abcdefghijklmnopqrstuvwxyz{|}~"

LowerStr == "abcdefghijklmnopqrstuvwxyz"

UpperStr == "ABCDEFGHIJKLMNOPQRSTUVWXYZ"

DigitStr == "0123456789"

Char(s, i) == SubSeq(s, i, i)

CharsOf(s) == {Char(s, i) : i \in 1..Len(s)}

LowerSet == CharsOf(LowerStr)

UpperSet == CharsOf(UpperStr)

LetterSet == LowerSet \cup UpperSet

DigitSet == CharsOf(DigitStr)

\* the characters of codes 128..255, in order; with the ASCII characters they
\* are the characters a TLA+ string can hold
Latin1Str == " ¡¢£¤¥¦§¨©ª«¬­®¯°±²³´µ¶·¸¹º»¼½¾¿ÀÁÂÃÄÅÆÇÈÉÊËÌÍÎÏÐÑÒÓÔÕÖ×ØÙÚÛÜÝÞßàáâãäåæçèéêëìíîïðñòóôõö÷øùúûüýþÿ"

Latin1Set == CharsOf(Latin1Str)

\* the upper-case letters with a lower-case form (unicode.ToLower): A..Z and
\* the letters of codes 192..214 and 216..222, whose lower-case forms are 32
\* codes up
UnicodeUpperStr == UpperStr \o "ÀÁÂÃÄÅÆÇÈÉÊËÌÍÎÏÐÑÒÓÔÕÖØÙÚÛÜÝÞ"

UnicodeLowerStr == LowerStr \o "àáâãäåæçèéêëìíîïðñòóôõöøùúûüýþ"

UnicodeUpperSet == CharsOf(UnicodeUpperStr)

\* next line (code 133) and no-break space (code 160)
NextLine == ""

NoBreakSpace == " "

\* the vertical tab (code 11)
VerticalTab == ""

\* unicode.IsSpace: tab, line feed, vertical tab, form feed, carriage return,
\* space, next line (code 133) and no-break space (code 160)
SpaceSet == {"\t", "\n", VerticalTab, "\f", "\r", " ", NextLine, NoBreakSpace}

\* the class \s of package regexp
RegexpSpaceSet == {"\t", "\n", "\f", "\r", " "}

IndexIn(str, c) == CHOOSE i \in 1..Len(str) : Char(str, i) = c

\* the byte value of each character
CodeOf ==
    [c \in CharsOf(AsciiLow) \cup CharsOf(AsciiHigh) \cup Latin1Set
            \cup {"\t", "\n", VerticalTab, "\f", "\r"} |->
        CASE c = "\t" -> 9
          [] c = "\n" -> 10
          [] c = VerticalTab -> 11
          [] c = "\f" -> 12
          [] c = "\r" -> 13
          [] c \in CharsOf(AsciiLow) -> 31 + IndexIn(AsciiLow, c)
          [] c \in CharsOf(AsciiHigh) -> 96 + IndexIn(AsciiHigh, c)
          [] OTHER -> 127 + IndexIn(Latin1Str, c)]

Code(c) == CodeOf[c]

\* unicode.ToLower of each upper-case letter
LowerOf == [c \in UnicodeUpperSet |-> Char(UnicodeLowerStr, IndexIn(UnicodeUpperStr, c))]

\* unicode.ToLower on one character
ToLowerChar(c) == IF c \in UnicodeUpperSet THEN LowerOf[c] ELSE c

RECURSIVE ToLowerFrom(_, _)
ToLowerFrom(s, i) ==
    IF i > Len(s) THEN "" ELSE ToLowerChar(Char(s, i)) \o ToLowerFrom(s, i + 1)

\* strings.HasPrefix
HasPrefix(s, p) == Len(p) <= Len(s) /\ SubSeq(s, 1, Len(p)) = p

RECURSIVE Itoa(_)
\* the decimal text of a natural number (%d)
Itoa(n) ==
    IF n < 10 THEN Char(DigitStr, n + 1)
    ELSE Itoa(n \div 10) \o Char(DigitStr, (n % 10) + 1)

\* the interface numbers the input lines name
PortNames == {"0/" \o Itoa(p) : p \in 0..MaxPort}

\* the input lines of the model
Lines ==
    {"", "?", "zzz", "e",
     "enable", "enable now",
     "exit", "exit now", "quit", "quit now",
     "disable", "disable now",
     "conf t", "configure",
     "show running-config", "show running-config now", "show r",
     "show version", "show version now", "show ip interface brief",
     "show history now", "history", "history now",
     "end", "end now",
     "hostname Edge1", "hostname -bad",
     "interface f0/1", "interface g 0/0", "interface x0/0",
     "no shutdown", "no shutdown now", "no ip address", "no ip address now",
     "no hostname",
     "ip address 10.0.0.1 255.255.255.0", "ip address 10.0.0.1 255.0.0.256",
     "shutdown", "shutdown now"}
    \cup {"int g" \o n : n \in PortNames}

\* every character of s is in set
AllIn(s, set) == \A i \in 1..Len(s) : Char(s, i) \in set

RECURSIVE RunLen(_, _, _)
\* the length of the longest run of characters of set that starts at s[i]
RunLen(s, i, set) ==
    IF i > Len(s) \/ Char(s, i) \notin set THEN 0 ELSE 1 + RunLen(s, i + 1, set)

RECURSIVE WordLen(_, _)
\* the length of the longest run of non-space characters that starts at s[i]
WordLen(s, i) ==
    IF i > Len(s) \/ Char(s, i) \in SpaceSet THEN 0 ELSE 1 + WordLen(s, i + 1)

RECURSIVE FieldsFrom(_, _)
\* the fields of s from position i on
FieldsFrom(s, i) ==
    LET a == i + RunLen(s, i, SpaceSet)
        n == WordLen(s, a)
    IN IF n = 0 THEN <<>>
       ELSE <<SubSeq(s, a, a + n - 1)>> \o FieldsFrom(s, a + n)

\* the fields of each input line, computed once
fieldsOfLines == [ln \in Lines |-> FieldsFrom(ln, 1)]

\* strings.Fields: the maximal runs of non-space characters
Fields(s) == IF s \in DOMAIN fieldsOfLines THEN fieldsOfLines[s] ELSE FieldsFrom(s, 1)

\* the lower-case form of each word of the input lines, computed once
lowerOfWords ==
    [w \in UNION {{fieldsOfLines[ln][i] : i \in 1..Len(fieldsOfLines[ln])} : ln \in Lines} |->
        ToLowerFrom(w, 1)]

\* strings.ToLower
ToLower(s) == IF s \in DOMAIN lowerOfWords THEN lowerOfWords[s] ELSE ToLowerFrom(s, 1)

RECURSIVE Join(_, _)
\* strings.Join
Join(parts, sep) ==
    IF Len(parts) = 0 THEN ""
    ELSE IF Len(parts) = 1 THEN parts[1]
         ELSE parts[1] \o sep \o Join(Tail(parts), sep)

\* the number of characters of s before the first occurrence of sub, -1 when
\* sub does not occur
IndexRune(s, sub) ==
    LET hits == {i \in 0..(Len(s) - Len(sub)) : SubSeq(s, i + 1, i + Len(sub)) = sub}
    IN IF hits = {} THEN -1 ELSE CHOOSE i \in hits : \A j \in hits : i <= j

\* the number of bytes of the UTF-8 encoding of s: one for an ASCII character,
\* two for a character of Latin1Str
ByteLen(s) == Len(s) + Cardinality({i \in 1..Len(s) : Char(s, i) \in Latin1Set})

\* strings.Index: the byte offset of the first occurrence of sub in s, -1 when
\* absent
Index(s, sub) ==
    LET k == IndexRune(s, sub)
    IN IF k = -1 THEN -1 ELSE ByteLen(SubSeq(s, 1, k))

RECURSIVE StrLess(_, _)
\* a < b on Go strings (byte-wise lexicographic), as sort.Strings compares
StrLess(a, b) ==
    IF Len(b) = 0 THEN FALSE
    ELSE IF Len(a) = 0 THEN TRUE
    ELSE IF Char(a, 1) # Char(b, 1) THEN Code(Char(a, 1)) < Code(Char(b, 1))
    ELSE StrLess(SubSeq(a, 2, Len(a)), SubSeq(b, 2, Len(b)))

RECURSIVE DecimalValue(_)
\* the number a short string of decimal digits denotes
DecimalValue(s) ==
    IF Len(s) = 0 THEN 0
    ELSE 10 * DecimalValue(SubSeq(s, 1, Len(s) - 1))
         + (IndexIn(DigitStr, Char(s, Len(s))) - 1)

\* A Go int has 64 bits and the integers of the model checker 32: an int that
\* comes from input text is held as its decimal text without leading zeros.
\* math.MaxInt64
MaxInt64 == "9223372036854775807"

RECURSIVE TrimZeros(_)
\* the digits of s from its first non-zero digit on ("0" for zero)
TrimZeros(s) ==
    IF Len(s) <= 1 \/ Char(s, 1) # "0" THEN s ELSE TrimZeros(SubSeq(s, 2, Len(s)))

RECURSIVE DigitsLess(_, _)
\* a < b for digit strings of the same length
DigitsLess(a, b) ==
    IF Len(a) = 0 THEN FALSE
    ELSE IF Char(a, 1) # Char(b, 1)
    THEN IndexIn(DigitStr, Char(a, 1)) < IndexIn(DigitStr, Char(b, 1))
    ELSE DigitsLess(SubSeq(a, 2, Len(a)), SubSeq(b, 2, Len(b)))

\* a < b on two ints held as decimal text
IntLess(a, b) == Len(a) < Len(b) \/ (Len(a) = Len(b) /\ DigitsLess(a, b))

\* strconv.Atoi on a string of decimal digits, its error dropped: the value,
\* or math.MaxInt64 when the digits denote more
Atoi(s) ==
    LET d == TrimZeros(s)
    IN IF IntLess(MaxInt64, d) THEN MaxInt64 ELSE d

\* the sequence slice[from:] of Go (from counted from 0)
SliceFrom(seq, from) == SubSeq(seq, from + 1, Len(seq))

\* the elements of a sequence
Range(seq) == {seq[i] : i \in 1..Len(seq)}

RECURSIVE InsertStr(_, _)
\* the string x put at its place in the ascending sequence acc
InsertStr(acc, x) ==
    IF Len(acc) = 0 THEN <<x>>
    ELSE IF StrLess(x, Head(acc)) THEN <<x>> \o acc
    ELSE <<Head(acc)>> \o InsertStr(Tail(acc), x)

RECURSIVE SortedSeq(_)
\* the strings of a set in ascending order (sort.Strings)
SortedSeq(S) ==
    IF S = {} THEN <<>>
    ELSE LET x == CHOOSE y \in S : TRUE
         IN InsertStr(SortedSeq(S \ {x}), x)

(***************************************************************************)
(* Modes, errors and the data structures.                                  *)
(***************************************************************************)
ModeUserExec == 1

ModePrivExec == 2

ModeGlobalConfig == 3

ModeInterfaceConfig == 4

Modes == ModeUserExec..ModeInterfaceConfig

\* the sentinel errors; an error value is [kind, msg]: the sentinel it wraps
\* ("error" for a plain fmt.Errorf) and its text
ErrAmbiguousCommand == "ambiguous command"

ErrInvalidInput == "invalid input"

ErrIncompleteCommand == "incomplete command"

ErrBadArguments == "invalid input or arguments"

ErrPlain == "error"

ErrorKinds ==
    {ErrAmbiguousCommand, ErrInvalidInput, ErrIncompleteCommand, ErrBadArguments, ErrPlain}

\* the nil error
NoErr == [kind |-> "nil", msg |-> ""]

\* fmt.Errorf("%w: <detail>", sentinel)
Wrap(sentinel, detail) == [kind |-> sentinel, msg |-> sentinel \o ": " \o detail]

\* fmt.Errorf("<msg>") without a wrapped sentinel
Errorf(msg) == [kind |-> ErrPlain, msg |-> msg]

\* the nil *CommandDef
NilDef == [Name |-> "", Handler |-> "", Modes |-> <<>>]

\* a new InterfaceConfig that is created enabled
NewInterfaceConfigUp ==
    [IPAddress |-> "", SubnetMask |-> "", Status |-> "down", AdminStatus |-> "up"]

\* the value of a new InterfaceConfig in doInterface
NewInterfaceConfig ==
    [IPAddress |-> "", SubnetMask |-> "", Status |-> "administratively down",
     AdminStatus |-> "down"]

\* what a handler call yields: the simulator after it, the error returned, the
\* lines printed, and whether os.Exit was called
Result(s, e, o, x) == [sim |-> s, err |-> e, out |-> o, exit |-> x]

Ok(s, o) == Result(s, NoErr, o, FALSE)

Fail(s, e) == Result(s, e, <<>>, FALSE)

(***************************************************************************)
(* The command registry.                                                   *)
(***************************************************************************)
\* the registration entries of registerCommands, in order
commands ==
    << [Name |-> "enable",    Handler |-> "doEnable",       Modes |-> <<ModeUserExec>>],
       [Name |-> "exit",      Handler |-> "doExitQuit",     Modes |-> <<ModeUserExec, ModePrivExec>>],
       [Name |-> "quit",      Handler |-> "doExitQuit",     Modes |-> <<ModeUserExec>>],
       [Name |-> "disable",   Handler |-> "doDisable",      Modes |-> <<ModePrivExec>>],
       [Name |-> "configure", Handler |-> "doConfigure",    Modes |-> <<ModePrivExec>>],
       [Name |-> "show",      Handler |-> "doShow",         Modes |-> <<ModePrivExec>>],
       [Name |-> "history",   Handler |-> "showHistoryCmd", Modes |-> <<ModePrivExec>>],
       [Name |-> "end",       Handler |-> "doEnd",          Modes |-> <<ModeGlobalConfig, ModeInterfaceConfig>>],
       [Name |-> "exit",      Handler |-> "doExitMode",     Modes |-> <<ModeGlobalConfig, ModeInterfaceConfig>>],
       [Name |-> "hostname",  Handler |-> "doHostname",     Modes |-> <<ModeGlobalConfig>>],
       [Name |-> "interface", Handler |-> "doInterface",    Modes |-> <<ModeGlobalConfig>>],
       [Name |-> "no",        Handler |-> "doNo",           Modes |-> <<ModeGlobalConfig, ModeInterfaceConfig>>],
       [Name |-> "ip",        Handler |-> "doIP",           Modes |-> <<ModeInterfaceConfig>>],
       [Name |-> "shutdown",  Handler |-> "doShutdown",     Modes |-> <<ModeInterfaceConfig>>] >>

RECURSIVE uniqueModes(_, _)
\* the deduplication loop of registerCommands: the first occurrences, in order
uniqueModes(ms, acc) ==
    IF Len(ms) = 0 THEN acc
    ELSE uniqueModes(Tail(ms), IF Head(ms) \in Range(acc) THEN acc ELSE Append(acc, Head(ms)))

RECURSIVE registerFromLastWins(_, _, _)
\* the loop of registerCommands with a later entry replacing the handler of the
\* definition it merges into
registerFromLastWins(cmds, i, defs) ==
    IF i > Len(cmds) THEN defs
    ELSE LET cmd == cmds[i]
         IN IF cmd.Name \notin DOMAIN defs
            THEN registerFromLastWins(cmds, i + 1, defs @@ (cmd.Name :> cmd))
            ELSE registerFromLastWins(cmds, i + 1,
                     [defs EXCEPT ![cmd.Name].Modes = uniqueModes(@ \o cmd.Modes, <<>>),
                                  ![cmd.Name].Handler = cmd.Handler])

RECURSIVE registerFrom(_, _, _)
\* the loop of registerCommands over the entries i.. with definedCommands = defs
registerFrom(cmds, i, defs) ==
    IF i > Len(cmds) THEN defs
    ELSE LET cmd == cmds[i]
         IN IF cmd.Name \notin DOMAIN defs
            THEN registerFrom(cmds, i + 1, defs @@ (cmd.Name :> cmd))
            ELSE registerFrom(cmds, i + 1,
                     [defs EXCEPT ![cmd.Name].Modes = uniqueModes(@ \o cmd.Modes, <<>>)])

\* definedCommands as registerCommands leaves it
registerCommands == registerFrom(commands, 1, <<>>)

\* buildModeCommandMaps entering every definition under every mode
buildModeCommandMapsEveryMode(defs) == [m \in Modes |-> DOMAIN defs]

\* modeCommandMap as buildModeCommandMaps builds it from definedCommands: for each
\* mode the names it maps (each to the definition definedCommands holds)
buildModeCommandMaps(defs) ==
    [m \in Modes |-> {n \in DOMAIN defs : m \in Range(defs[n].Modes)}]

\* the simulator NewCiscoDeviceSimulator(hostname) returns
NewCiscoDeviceSimulator(hostname) ==
    [hostname         |-> hostname,
     mode             |-> ModeUserExec,
     runningConfig    |-> [Hostname |-> hostname, Interfaces |-> <<>>],
     currentInterface |-> "",
     commandHistory   |-> <<>>,
     definedCommands  |-> registerCommands,
     modeCommandMap   |-> buildModeCommandMaps(registerCommands)]

(***************************************************************************)
(* Helper functions.                                                       *)
(***************************************************************************)
\* the prompt for the current mode
getPrompt(s) ==
    LET host == s.runningConfig.Hostname
    IN CASE s.mode = ModeUserExec        -> host \o ">"
         [] s.mode = ModePrivExec        -> host \o "#"
         [] s.mode = ModeGlobalConfig    -> host \o "(config)#"
         [] s.mode = ModeInterfaceConfig -> host \o "(config-if)#"
         [] OTHER                        -> host \o "?>"

\* getValidCommandsForMode leaving out shutdown on an interface that is shut down
getValidCommandsHidingShutdown(s) ==
    LET interfaces == s.runningConfig.Interfaces
        isDown == /\ s.currentInterface \in DOMAIN interfaces
                  /\ interfaces[s.currentInterface].AdminStatus = "down"
        names == IF s.mode \in DOMAIN s.modeCommandMap THEN s.modeCommandMap[s.mode] ELSE {}
    IN SortedSeq((IF isDown THEN names \ {"shutdown"} ELSE names) \cup {"?"})

\* getValidCommandsForMode listing the names of every mode
getValidCommandsAllModes(s) ==
    SortedSeq(UNION {s.modeCommandMap[m] : m \in DOMAIN s.modeCommandMap} \cup {"?"})

\* the sorted lists of the name sets of modeCommandMap, computed once
sortedNames ==
    [S \in {buildModeCommandMaps(registerCommands)[m] \cup {"?"} : m \in Modes} |->
        SortedSeq(S)]

\* sort.Strings on the elements of S
sortStrings(S) == IF S \in DOMAIN sortedNames THEN sortedNames[S] ELSE SortedSeq(S)

\* the names valid in the current mode and "?", sorted
getValidCommandsForMode(s) ==
    sortStrings((IF s.mode \in DOMAIN s.modeCommandMap THEN s.modeCommandMap[s.mode] ELSE {})
                \cup {"?"})

RECURSIVE collectMatches(_, _, _, _)
\* the matching loop of findCommandByAbbreviation over availableCommands[i..]
collectMatches(s, available, userInputLower, i) ==
    IF i > Len(available) THEN <<>>
    ELSE LET cmdName == available[i]
             rest == collectMatches(s, available, userInputLower, i + 1)
         IN IF cmdName = "?" THEN rest
            ELSE IF HasPrefix(ToLower(cmdName), userInputLower)
                    /\ cmdName \in DOMAIN s.definedCommands
                 THEN <<s.definedCommands[cmdName]>> \o rest
                 ELSE rest

\* the first definition of matches whose lower-cased name is userInputLower, or nil
firstExact(matches, userInputLower) ==
    LET hits == {i \in 1..Len(matches) : ToLower(matches[i].Name) = userInputLower}
    IN IF hits = {} THEN NilDef
       ELSE matches[CHOOSE i \in hits : \A j \in hits : i <= j]

\* findCommandByAbbreviation comparing the input as typed, not lower-cased
findCommandCaseSensitive(s, userInput) ==
    LET matches == collectMatches(s, getValidCommandsForMode(s), userInput, 1)
    IN IF userInput = "?"
       THEN [def |-> [Name |-> "?", Handler |-> "doHelp", Modes |-> <<>>], err |-> NoErr]
       ELSE IF Len(matches) = 1
       THEN [def |-> matches[1], err |-> NoErr]
       ELSE IF Len(matches) > 1
       THEN LET exact == firstExact(matches, userInput)
            IN IF exact # NilDef
               THEN [def |-> exact, err |-> NoErr]
               ELSE [def |-> NilDef, err |-> Wrap(ErrAmbiguousCommand, userInput)]
       ELSE [def |-> NilDef, err |-> Wrap(ErrInvalidInput, userInput)]

\* findCommandByAbbreviation taking the first match when several names match
findCommandFirstMatch(s, userInput) ==
    LET matches == collectMatches(s, getValidCommandsForMode(s), ToLower(userInput), 1)
    IN IF userInput = "?"
       THEN [def |-> [Name |-> "?", Handler |-> "doHelp", Modes |-> <<>>], err |-> NoErr]
       ELSE IF Len(matches) >= 1
       THEN [def |-> matches[1], err |-> NoErr]
       ELSE [def |-> NilDef, err |-> Wrap(ErrInvalidInput, userInput)]

\* findCommandByAbbreviation: [def, err]
findCommandByAbbreviation(s, userInput) ==
    LET userInputLower == ToLower(userInput)
        availableCommands == getValidCommandsForMode(s)
        matches == collectMatches(s, availableCommands, userInputLower, 1)
    IN IF userInput = "?"
       THEN [def |-> [Name |-> "?", Handler |-> "doHelp", Modes |-> <<>>], err |-> NoErr]
       ELSE IF Len(matches) = 1
       THEN [def |-> matches[1], err |-> NoErr]
       ELSE IF Len(matches) > 1
       THEN LET exact == firstExact(matches, userInputLower)
            IN IF exact # NilDef
               THEN [def |-> exact, err |-> NoErr]
               ELSE [def |-> NilDef, err |-> Wrap(ErrAmbiguousCommand, userInput)]
       ELSE [def |-> NilDef, err |-> Wrap(ErrInvalidInput, userInput)]


(***************************************************************************)
(* Validation: net.ParseIP, the regular expressions, normalisation.        *)
(***************************************************************************)
HexSet == DigitSet \cup CharsOf("abcdefABCDEF")

RECURSIVE SplitOn(_, _)
\* the pieces of s between the occurrences of the character c
SplitOn(s, c) ==
    LET k == IndexRune(s, c)
    IN IF k = -1 THEN <<s>>
       ELSE <<SubSeq(s, 1, k)>> \o SplitOn(SubSeq(s, k + 2, Len(s)), c)

\* one field of a dotted quad: 1 to 3 digits, at most 255, no leading zero
isIPv4Field(f) ==
    /\ Len(f) \in 1..3
    /\ AllIn(f, DigitSet)
    /\ DecimalValue(f) <= 255
    /\ (Len(f) > 1 => Char(f, 1) # "0")

\* net.ParseIP on a dotted quad
parseIPv4(ipStr) ==
    LET fs == SplitOn(ipStr, ".")
    IN Len(fs) = 4 /\ \A i \in 1..4 : isIPv4Field(fs[i])

\* one group of an IPv6 literal: 1 to 4 hexadecimal digits
isIPv6Group(g) == Len(g) \in 1..4 /\ AllIn(g, HexSet)

\* the groups of one side of an IPv6 literal ("" has none)
ipv6Groups(part) == IF part = "" THEN <<>> ELSE SplitOn(part, ":")

\* the last of the groups is a dotted quad, which takes the place of two
hasIPv4Tail(gs) == Len(gs) > 0 /\ IndexRune(gs[Len(gs)], ".") # -1

\* every group is 1 to 4 hexadecimal digits; where tail is allowed, the last
\* may be a dotted quad instead
ipv6GroupsValid(gs, tail) ==
    \A i \in 1..Len(gs) :
        IF tail /\ i = Len(gs) /\ hasIPv4Tail(gs) THEN parseIPv4(gs[i])
        ELSE isIPv6Group(gs[i])

\* the number of 16-bit fields the groups fill
ipv6Fields(gs, tail) == Len(gs) + (IF tail /\ hasIPv4Tail(gs) THEN 1 ELSE 0)

\* net.ParseIP on a literal with colons: eight 16-bit fields, or fewer around
\* one "::"; a dotted quad may stand for the last two fields; a zone (%...) is
\* refused
parseIPv6(ipStr) ==
    LET k == IndexRune(ipStr, "::")
    IN IF k = -1
       THEN LET gs == SplitOn(ipStr, ":")
            IN ipv6Fields(gs, TRUE) = 8 /\ ipv6GroupsValid(gs, TRUE)
       ELSE LET left  == ipv6Groups(SubSeq(ipStr, 1, k))
                right == ipv6Groups(SubSeq(ipStr, k + 3, Len(ipStr)))
            IN /\ Len(left) + ipv6Fields(right, TRUE) <= 7
               /\ ipv6GroupsValid(left, FALSE)
               /\ ipv6GroupsValid(right, TRUE)

\* the first of '.' and ':' in s decides the family net.ParseIP tries
firstSeparator(s) ==
    LET hits == {i \in 1..Len(s) : Char(s, i) \in {".", ":"}}
    IN IF hits = {} THEN "" ELSE Char(s, CHOOSE i \in hits : \A j \in hits : i <= j)

\* isValidIP: net.ParseIP(ipStr) != nil
isValidIP(ipStr) ==
    CASE firstSeparator(ipStr) = "." -> parseIPv4(ipStr)
      [] firstSeparator(ipStr) = ":" -> parseIPv6(ipStr)
      [] OTHER -> FALSE

\* the regular expression ^\d+/\d+$
matchNumber(numPart) ==
    \E k \in 2..(Len(numPart) - 1) :
        /\ Char(numPart, k) = "/"
        /\ AllIn(SubSeq(numPart, 1, k - 1), DigitSet)
        /\ AllIn(SubSeq(numPart, k + 1, Len(numPart)), DigitSet)

\* normalizeInterfaceName testing the type as typed, not lower-cased
normalizeCaseSensitive(typePart, numPart) ==
    LET base == IF HasPrefix(typePart, "g") THEN "GigabitEthernet"
                ELSE IF HasPrefix(typePart, "f") THEN "FastEthernet"
                ELSE IF HasPrefix(typePart, "e") THEN "Ethernet"
                ELSE ""
    IN IF base = ""
       THEN [name |-> "", err |-> Errorf("invalid interface type: " \o typePart)]
       ELSE IF ~matchNumber(numPart)
       THEN [name |-> "", err |-> Errorf("invalid interface number format: " \o numPart)]
       ELSE [name |-> base \o numPart, err |-> NoErr]

\* normalizeInterfaceName taking the number part as it is
normalizeUnchecked(typePart, numPart) ==
    LET t == ToLower(typePart)
        base == IF HasPrefix(t, "g") THEN "GigabitEthernet"
                ELSE IF HasPrefix(t, "f") THEN "FastEthernet"
                ELSE IF HasPrefix(t, "e") THEN "Ethernet"
                ELSE ""
    IN IF base = ""
       THEN [name |-> "", err |-> Errorf("invalid interface type: " \o typePart)]
       ELSE [name |-> base \o numPart, err |-> NoErr]

\* normalizeInterfaceName: [name, err]
normalizeInterfaceName(typePart, numPart) ==
    LET t == ToLower(typePart)
        base == IF HasPrefix(t, "g") THEN "GigabitEthernet"
                ELSE IF HasPrefix(t, "f") THEN "FastEthernet"
                ELSE IF HasPrefix(t, "e") THEN "Ethernet"
                ELSE ""
    IN IF base = ""
       THEN [name |-> "", err |-> Errorf("invalid interface type: " \o typePart)]
       ELSE IF ~matchNumber(numPart)
       THEN [name |-> "", err |-> Errorf("invalid interface number format: " \o numPart)]
       ELSE [name |-> base \o numPart, err |-> NoErr]

\* the regular expression (?i)^([a-z]+?)\s*(\d+/\d+)$ of doInterface: the
\* submatches <<whole, type, number>>, or <<>> when the text does not match
matchInterfaceInput(intfInput) ==
    LET nl == RunLen(intfInput, 1, LetterSet)
        ns == RunLen(intfInput, nl + 1, RegexpSpaceSet)
        num == SubSeq(intfInput, nl + ns + 1, Len(intfInput))
    IN IF nl >= 1 /\ matchNumber(num)
       THEN <<intfInput, SubSeq(intfInput, 1, nl), num>>
       ELSE <<>>

\* the regular expression ^[a-zA-Z0-9][a-zA-Z0-9\-]{0,62}$: the last character
\* is not held to be alphanumeric
matchHostnameOpenEnd(newName) ==
    LET alnum == LetterSet \cup DigitSet
    IN /\ Len(newName) \in 1..63
       /\ Char(newName, 1) \in alnum
       /\ AllIn(newName, alnum \cup {"-"})

\* the regular expression ^[a-zA-Z0-9]([a-zA-Z0-9\-]{0,61}[a-zA-Z0-9])?$ of doHostname
matchHostname(newName) ==
    LET alnum == LetterSet \cup DigitSet
    IN /\ Len(newName) \in 1..63
       /\ Char(newName, 1) \in alnum
       /\ Char(newName, Len(newName)) \in alnum
       /\ AllIn(newName, alnum \cup {"-"})

\* the leftmost match of (?i)([a-z]+)(\d+)/(\d+) that starts at position i of
\* name: <<type, slot, port>>, or <<>> when none starts there
sortKeyMatchAt(name, i) ==
    LET nl == RunLen(name, i, LetterSet)
        n1 == RunLen(name, i + nl, DigitSet)
        sl == i + nl + n1
        n2 == RunLen(name, sl + 1, DigitSet)
    IN IF nl >= 1 /\ n1 >= 1 /\ sl <= Len(name) /\ Char(name, sl) = "/" /\ n2 >= 1
       THEN <<SubSeq(name, i, i + nl - 1), SubSeq(name, i + nl, sl - 1),
              SubSeq(name, sl + 1, sl + n2)>>
       ELSE <<>>

RECURSIVE sortKeyMatchFrom(_, _)
\* the leftmost match of the expression in name at position i or later, or <<>>
sortKeyMatchFrom(name, i) ==
    IF i > Len(name) THEN <<>>
    ELSE LET match == sortKeyMatchAt(name, i)
         IN IF match # <<>> THEN match ELSE sortKeyMatchFrom(name, i + 1)

\* sortInterfaceKey: <<typeWeight, slot, port>>
sortInterfaceKey(intfName) ==
    LET match == sortKeyMatchFrom(intfName, 1)
    IN IF match = <<>> THEN <<999, "0", "0">>
       ELSE LET typePrefix == ToLower(match[1])
                w1 == IF HasPrefix(typePrefix, "f") THEN 1 ELSE 99
                w2 == IF HasPrefix(typePrefix, "g") THEN 2 ELSE w1
                typeWeight == IF HasPrefix(typePrefix, "t") THEN 3 ELSE w2
            IN <<typeWeight, Atoi(match[2]), Atoi(match[3])>>

\* the comparison of two sort keys in the less functions
keyLess(ka, kb) ==
    IF ka[1] # kb[1] THEN ka[1] < kb[1]
    ELSE IF ka[2] # kb[2] THEN IntLess(ka[2], kb[2])
    ELSE IntLess(ka[3], kb[3])

\* the less function of the two sort.SliceStable calls
interfaceLess(a, b) == keyLess(sortInterfaceKey(a), sortInterfaceKey(b))


(***************************************************************************)
(* Command handlers.  Each takes the simulator and the argument words and  *)
(* yields a Result.  The calls of readlineInstance.SetPrompt change only   *)
(* the terminal and are left out.                                          *)
(***************************************************************************)
RECURSIVE prefixEach(_, _)
\* each string of seq behind the prefix p
prefixEach(p, seq) ==
    IF Len(seq) = 0 THEN <<>> ELSE <<p \o Head(seq)>> \o prefixEach(p, Tail(seq))

\* doHelp
doHelp(s, args) ==
    Ok(s, <<"Available commands in this context:">>
          \o prefixEach("  ", getValidCommandsForMode(s))
          \o <<"(Use TAB for completion, abbreviations are supported)">>)

\* doExitQuit
doExitQuit(s, args) ==
    IF s.mode = ModeUserExec \/ s.mode = ModePrivExec
    THEN Result(s, NoErr, <<"Exiting simulator.">>, TRUE)
    ELSE Fail(s, Errorf("exit/quit command not valid in this mode"))

\* doExitMode
doExitMode(s, args) ==
    CASE s.mode = ModeGlobalConfig ->
            Ok([s EXCEPT !.mode = ModePrivExec], <<>>)
      [] s.mode = ModeInterfaceConfig ->
            Ok([s EXCEPT !.mode = ModeGlobalConfig, !.currentInterface = ""], <<>>)
      [] OTHER -> Fail(s, Errorf("exit command not valid in this mode"))

\* doEnd leaving currentInterface as it is
doEndKeepInterface(s, args) ==
    IF s.mode = ModeGlobalConfig \/ s.mode = ModeInterfaceConfig
    THEN Ok([s EXCEPT !.mode = ModePrivExec], <<>>)
    ELSE Fail(s, Errorf("end command not valid in this mode"))

\* doEnd accepted in GlobalConfig only
doEndGlobalOnly(s, args) ==
    IF s.mode = ModeGlobalConfig
    THEN Ok([s EXCEPT !.mode = ModePrivExec, !.currentInterface = ""], <<>>)
    ELSE Fail(s, Errorf("end command not valid in this mode"))

\* doEnd
doEnd(s, args) ==
    IF s.mode = ModeGlobalConfig \/ s.mode = ModeInterfaceConfig
    THEN Ok([s EXCEPT !.mode = ModePrivExec, !.currentInterface = ""], <<>>)
    ELSE Fail(s, Errorf("end command not valid in this mode"))

\* doEnable entering GlobalConfig
doEnableGlobal(s, args) == Ok([s EXCEPT !.mode = ModeGlobalConfig], <<>>)

\* doEnable
doEnable(s, args) == Ok([s EXCEPT !.mode = ModePrivExec], <<>>)

\* doDisable leaving the mode as it is
doDisableStays(s, args) == Ok(s, <<>>)

\* doDisable
doDisable(s, args) == Ok([s EXCEPT !.mode = ModeUserExec], <<>>)

\* doConfigure entering GlobalConfig before it looks at its argument
doConfigureModeFirst(s, args) ==
    IF Len(args) < 1 \/ ~HasPrefix(ToLower(args[1]), "t")
    THEN Fail([s EXCEPT !.mode = ModeGlobalConfig],
              Wrap(ErrIncompleteCommand, "expecting 'configure terminal'"))
    ELSE Ok([s EXCEPT !.mode = ModeGlobalConfig],
            <<"Enter configuration commands, one per line. End with CNTL/Z or 'end'.">>)

\* doConfigure
doConfigure(s, args) ==
    IF Len(args) < 1 \/ ~HasPrefix(ToLower(args[1]), "t")
    THEN Fail(s, Wrap(ErrIncompleteCommand, "expecting 'configure terminal'"))
    ELSE Ok([s EXCEPT !.mode = ModeGlobalConfig],
            <<"Enter configuration commands, one per line. End with CNTL/Z or 'end'.">>)

\* doHostname storing a fresh RunningConfig that has the new name
doHostnameNewConfig(s, args) ==
    IF Len(args) < 1
    THEN Fail(s, Wrap(ErrIncompleteCommand, "expecting 'hostname <name>'"))
    ELSE IF ~matchHostname(args[1])
    THEN Fail(s, Errorf("invalid hostname format"))
    ELSE Ok([s EXCEPT !.runningConfig = [Hostname |-> args[1], Interfaces |-> <<>>]], <<>>)

\* doHostname
doHostname(s, args) ==
    IF Len(args) < 1
    THEN Fail(s, Wrap(ErrIncompleteCommand, "expecting 'hostname <name>'"))
    ELSE IF ~matchHostname(args[1])
    THEN Fail(s, Errorf("invalid hostname format"))
    ELSE Ok([s EXCEPT !.runningConfig.Hostname = args[1]], <<>>)

\* doInterface storing a new InterfaceConfig whether or not the name exists
doInterfaceResets(s, args) ==
    IF Len(args) < 1
    THEN Fail(s, Wrap(ErrIncompleteCommand,
             "expecting 'interface <type><number>' or 'interface <type> <number>'"))
    ELSE
    LET intfInput == Join(args, "")
        re == matchInterfaceInput(intfInput)
        match == IF re = <<>> /\ Len(args) = 2
                 THEN <<args[1] \o args[2], args[1], args[2]>>
                 ELSE re
    IN IF match = <<>>
       THEN Fail(s, Errorf("invalid interface format: " \o intfInput
                           \o ". Expecting e.g., 'g0/0', 'FastEthernet0/1'"))
       ELSE
       LET norm == normalizeInterfaceName(match[2], match[3])
           others == [n \in DOMAIN s.runningConfig.Interfaces \ {norm.name} |->
                         s.runningConfig.Interfaces[n]]
       IN IF norm.err # NoErr THEN Fail(s, norm.err)
          ELSE Ok([s EXCEPT
                      !.runningConfig.Interfaces = others @@ (norm.name :> NewInterfaceConfig),
                      !.currentInterface = norm.name,
                      !.mode = ModeInterfaceConfig], <<>>)

\* doInterface clearing the address of an interface it enters again
doInterfaceClearsAddress(s, args) ==
    IF Len(args) < 1
    THEN Fail(s, Wrap(ErrIncompleteCommand,
             "expecting 'interface <type><number>' or 'interface <type> <number>'"))
    ELSE
    LET intfInput == Join(args, "")
        re == matchInterfaceInput(intfInput)
        match == IF re = <<>> /\ Len(args) = 2
                 THEN <<args[1] \o args[2], args[1], args[2]>>
                 ELSE re
    IN IF match = <<>>
       THEN Fail(s, Errorf("invalid interface format: " \o intfInput
                           \o ". Expecting e.g., 'g0/0', 'FastEthernet0/1'"))
       ELSE
       LET norm == normalizeInterfaceName(match[2], match[3])
           intfName == norm.name
           interfaces == s.runningConfig.Interfaces
       IN IF norm.err # NoErr THEN Fail(s, norm.err)
          ELSE Ok([s EXCEPT
                      !.runningConfig.Interfaces =
                          IF intfName \in DOMAIN interfaces
                          THEN [interfaces EXCEPT ![intfName].IPAddress = "",
                                                  ![intfName].SubnetMask = ""]
                          ELSE interfaces @@ (intfName :> NewInterfaceConfig),
                      !.currentInterface = intfName,
                      !.mode = ModeInterfaceConfig], <<>>)

\* doInterface
doInterface(s, args) ==
    IF Len(args) < 1
    THEN Fail(s, Wrap(ErrIncompleteCommand,
             "expecting 'interface <type><number>' or 'interface <type> <number>'"))
    ELSE
    LET intfInput == Join(args, "")
        re == matchInterfaceInput(intfInput)
        match == IF re = <<>> /\ Len(args) = 2
                 THEN <<args[1] \o args[2], args[1], args[2]>>
                 ELSE re
    IN IF match = <<>>
       THEN Fail(s, Errorf("invalid interface format: " \o intfInput
                           \o ". Expecting e.g., 'g0/0', 'FastEthernet0/1'"))
       ELSE
       LET norm == normalizeInterfaceName(match[2], match[3])
           intfName == norm.name
           interfaces == s.runningConfig.Interfaces
       IN IF norm.err # NoErr THEN Fail(s, norm.err)
          ELSE Ok([s EXCEPT
                      !.runningConfig.Interfaces =
                          IF intfName \in DOMAIN interfaces THEN interfaces
                          ELSE interfaces @@ (intfName :> NewInterfaceConfig),
                      !.currentInterface = intfName,
                      !.mode = ModeInterfaceConfig], <<>>)

\* doIP marking the interface up whatever its AdminStatus
doIPStatusUp(s, args) ==
    IF s.currentInterface = ""
    THEN Fail(s, Errorf("command must be run in interface configuration mode"))
    ELSE IF Len(args) < 1 \/ ~HasPrefix(ToLower(args[1]), "a")
    THEN Fail(s, Wrap(ErrIncompleteCommand, "expecting 'ip address <ip> <subnet>'"))
    ELSE IF Len(args) # 3
    THEN Fail(s, Wrap(ErrBadArguments, "expecting 'ip address <ip> <subnet>'"))
    ELSE
    LET intfData == s.runningConfig.Interfaces[s.currentInterface]
    IN IF ~isValidIP(args[2])
       THEN Fail(s, Errorf("invalid IP address format: " \o args[2]))
       ELSE IF ~isValidIP(args[3])
       THEN Fail(s, Errorf("invalid subnet mask format: " \o args[3]))
       ELSE Ok([s EXCEPT !.runningConfig.Interfaces[s.currentInterface] =
                   [intfData EXCEPT
                       !.IPAddress = args[2], !.SubnetMask = args[3], !.Status = "up"]],
               <<>>)

\* doIP storing the address before it has validated the mask
doIPStoreThenValidate(s, args) ==
    IF s.currentInterface = ""
    THEN Fail(s, Errorf("command must be run in interface configuration mode"))
    ELSE IF Len(args) < 1 \/ ~HasPrefix(ToLower(args[1]), "a")
    THEN Fail(s, Wrap(ErrIncompleteCommand, "expecting 'ip address <ip> <subnet>'"))
    ELSE IF Len(args) # 3
    THEN Fail(s, Wrap(ErrBadArguments, "expecting 'ip address <ip> <subnet>'"))
    ELSE
    LET intfData == s.runningConfig.Interfaces[s.currentInterface]
        stored == [s EXCEPT !.runningConfig.Interfaces[s.currentInterface] =
                      [intfData EXCEPT !.IPAddress = args[2]]]
    IN IF ~isValidIP(args[2])
       THEN Fail(s, Errorf("invalid IP address format: " \o args[2]))
       ELSE IF ~isValidIP(args[3])
       THEN Fail(stored, Errorf("invalid subnet mask format: " \o args[3]))
       ELSE Ok([s EXCEPT !.runningConfig.Interfaces[s.currentInterface] =
                   [intfData EXCEPT
                       !.IPAddress = args[2],
                       !.SubnetMask = args[3],
                       !.Status = IF intfData.AdminStatus = "up" THEN "up" ELSE @]],
               <<>>)

\* doIP
doIP(s, args) ==
    IF s.currentInterface = ""
    THEN Fail(s, Errorf("command must be run in interface configuration mode"))
    ELSE IF Len(args) < 1 \/ ~HasPrefix(ToLower(args[1]), "a")
    THEN Fail(s, Wrap(ErrIncompleteCommand, "expecting 'ip address <ip> <subnet>'"))
    ELSE IF Len(args) # 3
    THEN Fail(s, Wrap(ErrBadArguments, "expecting 'ip address <ip> <subnet>'"))
    ELSE
    LET ipAddr == args[2]
        subnetMask == args[3]
        intfData == s.runningConfig.Interfaces[s.currentInterface]
    IN IF ~isValidIP(ipAddr)
       THEN Fail(s, Errorf("invalid IP address format: " \o ipAddr))
       ELSE IF ~isValidIP(subnetMask)
       THEN Fail(s, Errorf("invalid subnet mask format: " \o subnetMask))
       ELSE Ok([s EXCEPT !.runningConfig.Interfaces[s.currentInterface] =
                   [intfData EXCEPT
                       !.IPAddress = ipAddr,
                       !.SubnetMask = subnetMask,
                       !.Status = IF intfData.AdminStatus = "up" THEN "up" ELSE @]],
               <<>>)

\* doShutdown shutting every interface of the device
doShutdownAll(s, args) ==
    IF s.currentInterface = ""
    THEN Fail(s, Errorf("command must be run in interface configuration mode"))
    ELSE IF Len(args) > 0
    THEN Fail(s, Wrap(ErrBadArguments, "'shutdown' takes no arguments"))
    ELSE Ok([s EXCEPT !.runningConfig.Interfaces =
                [n \in DOMAIN s.runningConfig.Interfaces |->
                    [s.runningConfig.Interfaces[n] EXCEPT
                        !.Status = "administratively down",
                        !.AdminStatus = "down"]]],
            <<>>)

\* doShutdown
doShutdown(s, args) ==
    IF s.currentInterface = ""
    THEN Fail(s, Errorf("command must be run in interface configuration mode"))
    ELSE IF Len(args) > 0
    THEN Fail(s, Wrap(ErrBadArguments, "'shutdown' takes no arguments"))
    ELSE LET intfData == s.runningConfig.Interfaces[s.currentInterface]
         IN Ok([s EXCEPT !.runningConfig.Interfaces[s.currentInterface] =
                   [intfData EXCEPT
                       !.Status = "administratively down",
                       !.AdminStatus = "down"]],
               <<>>)

\* noShutdown marking the interface up whether or not it has an address
noShutdownAlwaysUp(s, args) ==
    IF s.currentInterface = ""
    THEN Fail(s, Errorf("not in interface mode"))
    ELSE IF Len(args) > 0
    THEN Fail(s, Wrap(ErrBadArguments, "'no shutdown' takes no arguments"))
    ELSE LET intfData == s.runningConfig.Interfaces[s.currentInterface]
         IN Ok([s EXCEPT !.runningConfig.Interfaces[s.currentInterface] =
                   [intfData EXCEPT !.AdminStatus = "up", !.Status = "up"]],
               <<>>)

\* noShutdown
noShutdown(s, args) ==
    IF s.currentInterface = ""
    THEN Fail(s, Errorf("not in interface mode"))
    ELSE IF Len(args) > 0
    THEN Fail(s, Wrap(ErrBadArguments, "'no shutdown' takes no arguments"))
    ELSE LET intfData == s.runningConfig.Interfaces[s.currentInterface]
         IN Ok([s EXCEPT !.runningConfig.Interfaces[s.currentInterface] =
                   [intfData EXCEPT
                       !.AdminStatus = "up",
                       !.Status = IF intfData.IPAddress # "" THEN "up" ELSE "down"]],
               <<>>)

\* noIPAddress clearing the address and leaving the mask
noIPAddressKeepsMask(s, args) ==
    IF s.currentInterface = ""
    THEN Fail(s, Errorf("not in interface mode"))
    ELSE IF Len(args) > 0
    THEN Fail(s, Wrap(ErrBadArguments, "'no ip address' takes no further arguments"))
    ELSE LET intfData == s.runningConfig.Interfaces[s.currentInterface]
         IN Ok([s EXCEPT !.runningConfig.Interfaces[s.currentInterface] =
                   [intfData EXCEPT
                       !.IPAddress = "",
                       !.Status = IF intfData.AdminStatus = "up" THEN "down" ELSE @]],
               <<>>)

\* noIPAddress
noIPAddress(s, args) ==
    IF s.currentInterface = ""
    THEN Fail(s, Errorf("not in interface mode"))
    ELSE IF Len(args) > 0
    THEN Fail(s, Wrap(ErrBadArguments, "'no ip address' takes no further arguments"))
    ELSE LET intfData == s.runningConfig.Interfaces[s.currentInterface]
         IN Ok([s EXCEPT !.runningConfig.Interfaces[s.currentInterface] =
                   [intfData EXCEPT
                       !.IPAddress = "",
                       !.SubnetMask = "",
                       !.Status = IF intfData.AdminStatus = "up" THEN "down" ELSE @]],
               <<>>)


(***************************************************************************)
(* The show family and no.                                                 *)
(***************************************************************************)
RECURSIVE PadRight(_, _)
\* %-<w>s: s padded with spaces on the right to width w
PadRight(str, w) == IF Len(str) >= w THEN str ELSE PadRight(str \o " ", w)

\* the option strings of opts that have p as a prefix, in order
prefixMatches(opts, p) ==
    LET Test(opt) == HasPrefix(opt, p) IN SelectSeq(opts, Test)

\* the first string of matches that equals input once both are lower-cased, or ""
exactAmong(matches, input) ==
    LET hits == {i \in 1..Len(matches) : ToLower(matches[i]) = ToLower(input)}
    IN IF hits = {} THEN "" ELSE matches[CHOOSE i \in hits : \A j \in hits : i <= j]

RECURSIVE insertSorted(_, _)
\* x put into the sorted sequence acc behind every element that is not after it
insertSorted(acc, x) ==
    IF Len(acc) = 0 THEN <<x>>
    ELSE IF interfaceLess(x, Head(acc)) THEN <<x>> \o acc
    ELSE <<Head(acc)>> \o insertSorted(Tail(acc), x)

RECURSIVE sortInterfaces(_)
\* sort.SliceStable of the names by interfaceLess
sortInterfaces(intfNames) ==
    IF Len(intfNames) = 0 THEN <<>>
    ELSE insertSorted(sortInterfaces(SubSeq(intfNames, 1, Len(intfNames) - 1)),
                      intfNames[Len(intfNames)])

RECURSIVE orderings(_)
\* the sequences that hold each element of keys once
orderings(keys) ==
    IF keys = {} THEN {<<>>}
    ELSE UNION {{<<k>> \o q : q \in orderings(keys \ {k})} : k \in keys}

\* the orders in which ranging over the Interfaces map may yield its keys
iterationOrders(s) == orderings(DOMAIN s.runningConfig.Interfaces)

\* what the runtime answers during one call of processCommand: the order in
\* which ranging over the Interfaces map yields its keys, and the seconds the
\* clock shows since the simulator was constructed
Runtime(order, uptimeSeconds) == [order |-> order, uptime |-> uptimeSeconds]

\* the answers for a call that neither ranges over the map nor reads the clock
NoRuntime == Runtime(<<>>, 0)

\* %02d of a natural number
Pad2(n) == IF n < 10 THEN "0" \o Itoa(n) ELSE Itoa(n)

\* the uptime line of showVersion
uptimeLine(uptimeSeconds) ==
    "Uptime: " \o Pad2(uptimeSeconds \div 3600) \o "h "
               \o Pad2((uptimeSeconds % 3600) \div 60) \o "m "
               \o Pad2(uptimeSeconds % 60) \o "s (Simulated)"

\* showVersion writing the name the simulator was constructed with back into
\* the running configuration
showVersionRestoresHostname(s, args, uptimeSeconds) ==
    IF Len(args) > 0
    THEN Fail(s, Wrap(ErrBadArguments, "'show version' takes no arguments"))
    ELSE Ok([s EXCEPT !.runningConfig.Hostname = s.hostname],
            <<"Basic Cisco IOS Simulator (Go)",
              "Version: 1.0 (Simulated)",
              "Hostname: " \o s.hostname,
              uptimeLine(uptimeSeconds),
              "",
              "(Limited information in this simulation)">>)

\* showVersion; uptimeSeconds is int(time.Since(sim.startTime).Seconds()), the
\* whole seconds the clock shows since construction
showVersion(s, args, uptimeSeconds) ==
    IF Len(args) > 0
    THEN Fail(s, Wrap(ErrBadArguments, "'show version' takes no arguments"))
    ELSE Ok(s, <<"Basic Cisco IOS Simulator (Go)",
                 "Version: 1.0 (Simulated)",
                 "Hostname: " \o s.runningConfig.Hostname,
                 uptimeLine(uptimeSeconds),
                 "",
                 "(Limited information in this simulation)">>)

RECURSIVE runningConfigBlocksByStatus(_, _)
\* the blocks of showRunningConfig with the shutdown line printed for every
\* interface whose Status is not up
runningConfigBlocksByStatus(s, intfNames) ==
    IF Len(intfNames) = 0 THEN <<>>
    ELSE LET intfName == Head(intfNames)
             intfData == s.runningConfig.Interfaces[intfName]
         IN <<"interface " \o intfName>>
            \o (IF intfData.IPAddress # "" /\ intfData.SubnetMask # ""
                THEN <<" ip address " \o intfData.IPAddress \o " " \o intfData.SubnetMask>>
                ELSE <<>>)
            \o (IF intfData.Status # "up" THEN <<" shutdown">> ELSE <<>>)
            \o <<"!">>
            \o runningConfigBlocksByStatus(s, Tail(intfNames))

RECURSIVE runningConfigBlocks(_, _)
\* the per-interface blocks of showRunningConfig for the sorted names
runningConfigBlocks(s, intfNames) ==
    IF Len(intfNames) = 0 THEN <<>>
    ELSE LET intfName == Head(intfNames)
             intfData == s.runningConfig.Interfaces[intfName]
         IN <<"interface " \o intfName>>
            \o (IF intfData.IPAddress # "" /\ intfData.SubnetMask # ""
                THEN <<" ip address " \o intfData.IPAddress \o " " \o intfData.SubnetMask>>
                ELSE <<>>)
            \o (IF intfData.AdminStatus = "down" THEN <<" shutdown">> ELSE <<>>)
            \o <<"!">>
            \o runningConfigBlocks(s, Tail(intfNames))

\* showRunningConfig; iter is the order in which the map yields its keys
showRunningConfig(s, args, iter) ==
    IF Len(args) > 0
    THEN Fail(s, Wrap(ErrBadArguments, "'show running-config' takes no arguments"))
    ELSE Ok(s, <<"Building configuration...", "!", "version 1.0 (Simulated)", "!",
                 "hostname " \o s.runningConfig.Hostname, "!">>
               \o runningConfigBlocks(s, sortInterfaces(iter))
               \o <<"!", "end">>)

RECURSIVE briefRows(_, _)
\* the rows of showIPInterfaceBrief for the sorted names
briefRows(s, intfNames) ==
    IF Len(intfNames) = 0 THEN <<>>
    ELSE LET intfName == Head(intfNames)
             intfData == s.runningConfig.Interfaces[intfName]
             has == intfData.IPAddress # ""
             ipAddr == IF has THEN intfData.IPAddress ELSE "unassigned"
             ok == IF has THEN "YES" ELSE "NO "
             method == IF has THEN "manual" ELSE "unset "
             status == intfData.Status
         IN <<PadRight(intfName, 26) \o " " \o PadRight(ipAddr, 15) \o " "
              \o PadRight(ok, 3) \o " " \o PadRight(method, 6) \o " "
              \o PadRight(status, 21) \o " " \o status>>
            \o briefRows(s, Tail(intfNames))

\* showIPInterfaceBrief
showIPInterfaceBrief(s, args, iter) ==
    IF Len(args) > 0
    THEN Fail(s, Wrap(ErrBadArguments, "extra arguments after 'show ip interface brief'"))
    ELSE Ok(s, <<"Interface                  IP-Address      OK? Method Status                Protocol">>
               \o briefRows(s, sortInterfaces(iter)))

RECURSIVE historyRows(_, _)
\* the rows of showHistoryCmd from entry i on
historyRows(hist, i) ==
    IF i > Len(hist) THEN <<>>
    ELSE <<" " \o Itoa(i) \o ": " \o hist[i]>> \o historyRows(hist, i + 1)

\* showHistoryCmd
showHistoryCmd(s, args) ==
    IF Len(args) > 0
    THEN Fail(s, Wrap(ErrBadArguments, "'history' takes no arguments"))
    ELSE Ok(s, <<"Command History:">> \o historyRows(s.commandHistory, 1))

\* the sub-commands doShow offers
showOptions == <<"version", "running-config", "run", "ip", "history">>

\* doShow
doShow(s, args, rt) ==
    IF Len(args) < 1
    THEN Fail(s, Wrap(ErrIncompleteCommand, "expecting 'show <subcommand>'"))
    ELSE
    LET subCommandInput == args[1]
        subArgs == SliceFrom(args, 1)
        matches == prefixMatches(showOptions, ToLower(subCommandInput))
        matchedSubCommand ==
            IF Len(matches) = 1 THEN matches[1]
            ELSE IF Len(matches) > 1
            THEN IF ToLower(subCommandInput) = "run" /\ "running-config" \in Range(matches)
                 THEN "running-config"
                 ELSE exactAmong(matches, subCommandInput)
            ELSE ""
        ambiguous == Len(matches) > 1 /\ matchedSubCommand = ""
    IN IF ambiguous
       THEN Fail(s, Wrap(ErrAmbiguousCommand, "show " \o subCommandInput))
       ELSE IF matchedSubCommand = ""
       THEN Fail(s, Wrap(ErrInvalidInput, "show " \o subCommandInput))
       ELSE CASE matchedSubCommand = "version" -> showVersion(s, subArgs, rt.uptime)
              [] matchedSubCommand = "running-config" -> showRunningConfig(s, subArgs, rt.order)
              [] matchedSubCommand = "ip" ->
                    IF Len(subArgs) < 1 \/ ~HasPrefix(ToLower(subArgs[1]), "i")
                    THEN Fail(s, Wrap(ErrIncompleteCommand,
                                      "expecting 'show ip interface brief'"))
                    ELSE IF Len(subArgs) < 2 \/ ~HasPrefix(ToLower(subArgs[2]), "b")
                    THEN Fail(s, Wrap(ErrIncompleteCommand,
                                      "expecting 'show ip interface brief'"))
                    ELSE IF Len(subArgs) > 2
                    THEN Fail(s, Wrap(ErrBadArguments,
                                      "extra arguments after 'show ip interface brief'"))
                    ELSE showIPInterfaceBrief(s, SliceFrom(subArgs, 2), rt.order)
              [] matchedSubCommand = "history" -> showHistoryCmd(s, subArgs)
              [] OTHER -> Fail(s, Errorf("internal error: unhandled show command '"
                                         \o matchedSubCommand \o "'"))

\* doNo offering the targets of both configuration modes in either
doNoAllTargets(s, args) ==
    IF Len(args) < 1
    THEN Fail(s, Wrap(ErrIncompleteCommand, "'no' command"))
    ELSE IF s.mode # ModeInterfaceConfig /\ s.mode # ModeGlobalConfig
    THEN Fail(s, Errorf("'no' command not applicable in this mode"))
    ELSE
    LET noSubCommandInput == args[1]
        subArgs == SliceFrom(args, 1)
        possibleNoCommands == <<"shutdown", "ip", "hostname", "interface">>
        Test(cmd) == HasPrefix(ToLower(cmd), ToLower(noSubCommandInput))
        matches == SelectSeq(possibleNoCommands, Test)
        matchedSubCommand ==
            IF Len(matches) = 1 THEN matches[1]
            ELSE IF Len(matches) > 1 THEN exactAmong(matches, noSubCommandInput)
            ELSE ""
        ambiguous == Len(matches) > 1 /\ matchedSubCommand = ""
    IN IF ambiguous
       THEN Fail(s, Wrap(ErrAmbiguousCommand, "no " \o noSubCommandInput))
       ELSE IF matchedSubCommand = ""
       THEN Fail(s, Wrap(ErrInvalidInput, "no " \o noSubCommandInput))
       ELSE IF s.mode = ModeInterfaceConfig
       THEN CASE matchedSubCommand = "shutdown" -> noShutdown(s, subArgs)
              [] matchedSubCommand = "ip" ->
                    IF Len(subArgs) < 1 \/ ~HasPrefix(ToLower(subArgs[1]), "a")
                    THEN Fail(s, Wrap(ErrIncompleteCommand, "expecting 'no ip address'"))
                    ELSE noIPAddress(s, SliceFrom(subArgs, 1))
              [] OTHER -> Fail(s, Errorf("internal error: unhandled 'no' subcommand '"
                                         \o matchedSubCommand \o "' in IF mode"))
       ELSE CASE matchedSubCommand = "hostname" ->
                    Fail(s, Errorf("cannot 'no hostname'. Set a new one instead"))
              [] matchedSubCommand = "interface" ->
                    Fail(s, Errorf("use 'default interface <name>' to reset an interface (not implemented)"))
              [] OTHER -> Fail(s, Errorf("internal error: unhandled 'no' subcommand '"
                                         \o matchedSubCommand \o "' in Global mode"))

\* doNo
doNo(s, args) ==
    IF Len(args) < 1
    THEN Fail(s, Wrap(ErrIncompleteCommand, "'no' command"))
    ELSE IF s.mode # ModeInterfaceConfig /\ s.mode # ModeGlobalConfig
    THEN Fail(s, Errorf("'no' command not applicable in this mode"))
    ELSE
    LET noSubCommandInput == args[1]
        subArgs == SliceFrom(args, 1)
        possibleNoCommands == IF s.mode = ModeInterfaceConfig
                              THEN <<"shutdown", "ip">>
                              ELSE <<"hostname", "interface">>
        Test(cmd) == HasPrefix(ToLower(cmd), ToLower(noSubCommandInput))
        matches == SelectSeq(possibleNoCommands, Test)
        matchedSubCommand ==
            IF Len(matches) = 1 THEN matches[1]
            ELSE IF Len(matches) > 1 THEN exactAmong(matches, noSubCommandInput)
            ELSE ""
        ambiguous == Len(matches) > 1 /\ matchedSubCommand = ""
    IN IF ambiguous
       THEN Fail(s, Wrap(ErrAmbiguousCommand, "no " \o noSubCommandInput))
       ELSE IF matchedSubCommand = ""
       THEN Fail(s, Wrap(ErrInvalidInput, "no " \o noSubCommandInput))
       ELSE IF s.mode = ModeInterfaceConfig
       THEN CASE matchedSubCommand = "shutdown" -> noShutdown(s, subArgs)
              [] matchedSubCommand = "ip" ->
                    IF Len(subArgs) < 1 \/ ~HasPrefix(ToLower(subArgs[1]), "a")
                    THEN Fail(s, Wrap(ErrIncompleteCommand, "expecting 'no ip address'"))
                    ELSE noIPAddress(s, SliceFrom(subArgs, 1))
              [] OTHER -> Fail(s, Errorf("internal error: unhandled 'no' subcommand '"
                                         \o matchedSubCommand \o "' in IF mode"))
       ELSE CASE matchedSubCommand = "hostname" ->
                    Fail(s, Errorf("cannot 'no hostname'. Set a new one instead"))
              [] matchedSubCommand = "interface" ->
                    Fail(s, Errorf("use 'default interface <name>' to reset an interface (not implemented)"))
              [] OTHER -> Fail(s, Errorf("internal error: unhandled 'no' subcommand '"
                                         \o matchedSubCommand \o "' in Global mode"))


(***************************************************************************)
(* processCommand, the read loops and the steps of the program.            *)
(***************************************************************************)
\* the call cmdDef.Handler(args) of the method value bound at registration
callHandler(handler, s, args, rt) ==
    CASE handler = "doHelp"         -> doHelp(s, args)
      [] handler = "doEnable"       -> doEnable(s, args)
      [] handler = "doExitQuit"     -> doExitQuit(s, args)
      [] handler = "doDisable"      -> doDisable(s, args)
      [] handler = "doConfigure"    -> doConfigure(s, args)
      [] handler = "doShow"         -> doShow(s, args, rt)
      [] handler = "showHistoryCmd" -> showHistoryCmd(s, args)
      [] handler = "doEnd"          -> doEnd(s, args)
      [] handler = "doExitMode"     -> doExitMode(s, args)
      [] handler = "doHostname"     -> doHostname(s, args)
      [] handler = "doInterface"    -> doInterface(s, args)
      [] handler = "doNo"           -> doNo(s, args)
      [] handler = "doIP"           -> doIP(s, args)
      [] handler = "doShutdown"     -> doShutdown(s, args)

\* processCommand: the Result, the name of the definition the resolver returned
\* and the handler that was called ("" when none was)
processCommand(s, ln, rt) ==
    LET parts == Fields(ln)
    IN IF Len(parts) = 0
       THEN [res |-> Ok(s, <<>>), resolved |-> "", handler |-> ""]
       ELSE
       LET userCmdInput == parts[1]
           args == SliceFrom(parts, 1)
           found == findCommandByAbbreviation(s, userCmdInput)
           cmdDef == found.def
       IN IF found.err # NoErr
          THEN [res |-> Fail(s, found.err), resolved |-> "", handler |-> ""]
          ELSE IF cmdDef.Handler # ""
          THEN [res |-> callHandler(cmdDef.Handler, s, args, rt),
                resolved |-> cmdDef.Name, handler |-> cmdDef.Handler]
          ELSE [res |-> Fail(s, Errorf("command lookup failed for '" \o cmdDef.Name
                                       \o "' (internal error)")),
                resolved |-> cmdDef.Name, handler |-> ""]

\* the first word of a line, lower-cased ("" for a blank line)
FirstWord(ln) == IF Len(Fields(ln)) = 0 THEN "" ELSE ToLower(Fields(ln)[1])

\* the words are show and a word that abbreviates running-config or ip, the
\* two targets that range over the Interfaces map
rangesOverMap(parts) ==
    /\ Len(parts) >= 2
    /\ HasPrefix("show", ToLower(parts[1]))
    /\ \/ HasPrefix("running-config", ToLower(parts[2]))
       \/ HasPrefix("ip", ToLower(parts[2]))

\* the words are show and version, typed in full or abbreviated
showsVersion(parts) ==
    /\ Len(parts) >= 2
    /\ HasPrefix("show", ToLower(parts[1]))
    /\ HasPrefix("version", ToLower(parts[2]))

\* processCommand(ln) reads the clock only when it calls showVersion
readsClock(ln) == showsVersion(Fields(ln))

\* the readings of the clock the model tries, in seconds since construction
Uptimes == {0, 59, 3725}

\* what the runtime may answer during processCommand(ln): an order of the map
\* where the command ranges over it, a reading of the clock where it reads it
Runtimes(s, ln) ==
    {Runtime(order, uptime) :
        order \in (IF rangesOverMap(Fields(ln)) THEN iterationOrders(s) ELSE {<<>>}),
        uptime \in (IF readsClock(ln) THEN Uptimes ELSE {0})}

(***************************************************************************)
(* The run loop: one iteration reads a line, trims it, records it in the   *)
(* command history, processes it and prints the diagnostic of its error.   *)
(***************************************************************************)
\* strings.TrimSpace
TrimSpace(str) ==
    LET inner == {i \in 1..Len(str) : Char(str, i) \notin SpaceSet}
    IN IF inner = {} THEN ""
       ELSE SubSeq(str, CHOOSE i \in inner : \A j \in inner : i <= j,
                        CHOOSE i \in inner : \A j \in inner : j <= i)

RECURSIVE Repeat(_, _)
\* strings.Repeat
Repeat(str, count) == IF count <= 0 THEN "" ELSE str \o Repeat(str, count - 1)

\* strings.SplitN(msg, ": ", 2)
SplitN2(msg) ==
    LET k == IndexRune(msg, ": ")
    IN IF k = -1 THEN <<msg>>
       ELSE <<SubSeq(msg, 1, k), SubSeq(msg, k + 3, Len(msg))>>

\* the part of an error message the run loop names in its diagnostic
errorPart(ln, e) ==
    LET errMsgParts == SplitN2(e.msg)
    IN IF Len(errMsgParts) = 2 THEN errMsgParts[2] ELSE ln

\* markerPos of printInvalidInputMarker: the byte offset of the bad part in
\* the lower-cased line, else that of the first character that is neither a
\* space nor a tab, else 0
markerPos(ln, badPart) ==
    LET found == Index(ToLower(ln), ToLower(badPart))
        first == {i \in 0..(Len(ln) - 1) : Char(ln, i + 1) \notin {" ", "\t"}}
    IN IF found # -1 THEN found
       ELSE IF first = {} THEN 0
       ELSE ByteLen(SubSeq(ln, 1, CHOOSE i \in first : \A j \in first : i <= j))

\* printInvalidInputMarker
printInvalidInputMarker(ln, badPart) ==
    <<"% Invalid input detected at '^' marker.",
      "  " \o ln,
      "  " \o Repeat(" ", markerPos(ln, badPart)) \o "^">>

\* what the loop prints on standard output for the error of a line
printError(ln, e) ==
    CASE e = NoErr -> <<>>
      [] e.kind = ErrAmbiguousCommand ->
            <<"% Ambiguous command: \"" \o errorPart(ln, e) \o "\"">>
      [] e.kind = ErrInvalidInput -> printInvalidInputMarker(ln, errorPart(ln, e))
      [] e.kind \in {ErrIncompleteCommand, ErrBadArguments} -> <<"% " \o e.msg>>
      [] OTHER -> <<>>

\* the texts the loop hands to log.Printf for the error of a line: that of an
\* error that is none of the four input errors
logError(e) ==
    IF e.kind \in {"nil", ErrAmbiguousCommand, ErrInvalidInput,
                   ErrIncompleteCommand, ErrBadArguments}
    THEN <<>>
    ELSE <<"Error processing command: " \o e.msg>>

\* the dates and times the logger reads from the wall clock in the model, as
\* its standard flags print them, the earlier one first
LogStamps == <<"2026/10/30 09:15:00", "2026/12/31 23:59:59">>

\* the line log.Printf writes to the log output for the text: the date and
\* time of the call, a space and the text
logLine(now, text) == now \o " " \o text

\* the result p of processCommand(ln) with the diagnostic of its error: printed
\* behind its output, or handed to the logger
withDiagnostic(ln, p) ==
    [res |-> [p.res EXCEPT !.out = @ \o printError(ln, p.res.err)],
     resolved |-> p.resolved, handler |-> p.handler, log |-> logError(p.res.err)]

\* the result p of processCommand(ln) with ln recorded when it did not fail
recordedIfOk(ln, p) ==
    IF p.res.err = NoErr
    THEN [p EXCEPT !.res.sim.commandHistory = Append(@, ln)]
    ELSE p

\* the loop iteration that reads nothing but blanks: it continues
skipped(s) == [res |-> Ok(s, <<>>), resolved |-> "", handler |-> "", log |-> <<>>]

\* the loop body recording a line only once it has been processed without error
runLineSkipFailed(s, raw, rt) ==
    IF TrimSpace(raw) = ""
    THEN skipped(s)
    ELSE withDiagnostic(TrimSpace(raw),
                        recordedIfOk(TrimSpace(raw),
                                     processCommand(s, TrimSpace(raw), rt)))

\* the body of the read loop for a line that was read: the line is trimmed, a
\* line of blanks is skipped, any other is appended to the command history and
\* then processed, and the diagnostic of its error is printed or logged
runLine(s, raw, rt) ==
    IF TrimSpace(raw) = ""
    THEN skipped(s)
    ELSE withDiagnostic(TrimSpace(raw),
                        processCommand([s EXCEPT !.commandHistory =
                                                     Append(@, TrimSpace(raw))],
                                       TrimSpace(raw), rt))

\* the loop body has read the line raw in the loop of method and leaves the
\* state given by p; what it logs carries the time of the call
Reads(raw, p, method) ==
    /\ sim' = p.res.sim
    /\ line' = raw
    /\ err' = p.res.err
    /\ out' = p.res.out
    /\ \E now \in (IF p.log = <<>> THEN {1} ELSE DOMAIN LogStamps) :
          logged' = [i \in 1..Len(p.log) |-> logLine(LogStamps[now], p.log[i])]
    /\ resolved' = p.resolved
    /\ invoked' = p.handler
    /\ terminated' = p.res.exit
    /\ op' = method

\* the sessions a specification follows are bounded by the lines they read:
\* with ln read next, the command history starts with the first lines of one
\* of the scripts and holds at most free lines behind them (a line of blanks
\* is not recorded and can always be read)
Follows(scripts, free, ln) ==
    \/ ln = ""
    \/ \E sc \in scripts : \E k \in 0..Len(sc) :
          /\ k <= Len(sim.commandHistory) + 1
          /\ Len(sim.commandHistory) + 1 <= k + free
          /\ SubSeq(Append(sim.commandHistory, ln), 1, k) = SubSeq(sc, 1, k)

\* one iteration of the run loop on the line raw
RunLine(raw, scripts, free) ==
    /\ ~terminated
    /\ Follows(scripts, free, TrimSpace(raw))
    /\ \E rt \in Runtimes(sim, TrimSpace(raw)) :
          Reads(raw, runLine(sim, raw, rt), "Readline")

\* Readline returns ErrInterrupt (Ctrl+C): the loop goes on to the next line
ReadInterrupt ==
    /\ ~terminated
    /\ sim' = sim
    /\ line' = ""
    /\ err' = NoErr
    /\ out' = <<>>
    /\ logged' = <<>>
    /\ resolved' = ""
    /\ invoked' = ""
    /\ terminated' = FALSE
    /\ op' = "Readline"

\* the texts of the errors, other than end of input and interrupt, that
\* reading a line fails with in the model
ReadErrorTexts == {"read /dev/stdin: input/output error"}

\* reading fails with the error msg: the loop logs it and returns it, and
\* main logs it again and exits; nothing goes to standard output
readFailure(loopText, msg) ==
    /\ sim' = sim
    /\ line' = ""
    /\ err' = Errorf(msg)
    /\ out' = <<>>
    /\ \E now \in DOMAIN LogStamps : \E later \in now..Len(LogStamps) :
          logged' = <<logLine(LogStamps[now], loopText \o msg),
                      logLine(LogStamps[later], "Simulator exited with error: " \o msg)>>
    /\ resolved' = ""
    /\ invoked' = ""
    /\ terminated' = TRUE

\* Readline returns an error other than ErrInterrupt and io.EOF
ReadError ==
    /\ ~terminated
    /\ \E msg \in ReadErrorTexts : readFailure("Error reading line: ", msg)
    /\ op' = "run"

\* end of input (Ctrl+D) in the run loop: exit in the exec modes, doExitMode in
\* the configuration modes (its error is ignored)
ReadEOF ==
    /\ ~terminated
    /\ LET quit == sim.mode = ModeUserExec \/ sim.mode = ModePrivExec
           r == IF quit THEN doExitQuit(sim, <<>>) ELSE doExitMode(sim, <<>>)
       IN /\ sim' = r.sim
          /\ line' = ""
          /\ err' = NoErr
          /\ out' = (IF quit THEN <<"exit">> ELSE <<>>) \o r.out
          /\ logged' = <<>>
          /\ resolved' = ""
          /\ invoked' = IF quit THEN "doExitQuit" ELSE "doExitMode"
          /\ terminated' = quit
          /\ op' = "run"

(***************************************************************************)
(* The session under every input line of the model (Spec).                 *)
(***************************************************************************)
\* the state after construction: main calls NewCiscoDeviceSimulator("Router")
Init ==
    /\ sim = NewCiscoDeviceSimulator("Router")
    /\ line = ""
    /\ err = NoErr
    /\ out = <<>>
    /\ logged = <<>>
    /\ resolved = ""
    /\ invoked = ""
    /\ terminated = FALSE
    /\ op = "NewCiscoDeviceSimulator"

\* the scripts of Spec: a renamed device with an addressed interface that is
\* listed and a second interface; two interfaces brought up, one with and one
\* without an address; a renamed device with an enabled interface listed
Scripts ==
    {<<"enable", "conf t", "hostname Edge1", "int g0/0",
       "ip address 10.0.0.1 255.255.255.0", "end", "show running-config",
       "conf t", "interface f0/1">>,
     <<"enable", "conf t", "int g0/0", "ip address 10.0.0.1 255.255.255.0",
       "no shutdown", "end", "conf t", "interface f0/1", "no shutdown",
       "no ip address", "end">>,
     <<"enable", "conf t", "hostname Edge1", "int g0/0", "no shutdown", "end",
       "show running-config">>}

\* the run loop reads one of the input lines
ProcessLine == \E raw \in Lines : RunLine(raw, Scripts, MaxFree)

Next == ProcessLine \/ ReadEOF

Spec == Init /\ [][Next]_vars

(***************************************************************************)
(* The resolver on its own: findCommandByAbbreviation is called with every *)
(* token of Tokens in every session the lines of ModeLines lead to.        *)
(***************************************************************************)
\* strings.ToUpper, used to build the tokens
ToUpper(s) ==
    LET up(c) == IF c \in LowerSet THEN Char(UpperStr, IndexIn(LowerStr, c)) ELSE c
        F[i \in 0..Len(s)] == IF i = 0 THEN "" ELSE F[i - 1] \o up(Char(s, i))
    IN F[Len(s)]

\* the registered command names
CommandNames == {commands[i].Name : i \in 1..Len(commands)}

\* every non-empty prefix of every command name; every name in upper case,
\* capitalised and with a letter too many; words that match nothing
Tokens ==
    UNION {{SubSeq(n, 1, k) : k \in 1..Len(n)} : n \in CommandNames}
    \cup {ToUpper(n) : n \in CommandNames}
    \cup {ToUpper(Char(n, 1)) \o SubSeq(n, 2, Len(n)) : n \in CommandNames}
    \cup {n \o "x" : n \in CommandNames}
    \cup {"?", "zzz", "E", "SH"}

\* the lines that move the session through its modes
ModeLines ==
    {"enable", "conf t", "hostname Edge1", "int g0/0", "end"}

\* the script of SpecResolve: through the four modes and back to PrivExec
ResolveScripts == {<<"enable", "conf t", "hostname Edge1", "int g0/0", "end">>}

\* a call findCommandByAbbreviation(tok): it returns and changes nothing
FindCommand ==
    /\ ~terminated
    /\ \E tok \in Tokens :
          LET found == findCommandByAbbreviation(sim, tok)
          IN /\ line' = tok
             /\ err' = found.err
             /\ resolved' = found.def.Name
             /\ invoked' = ""
             /\ out' = <<>>
             /\ logged' = <<>>
             /\ op' = "findCommandByAbbreviation"
             /\ UNCHANGED <<sim, terminated>>

\* the run loop reads one of the mode lines
ModeLine == \E raw \in ModeLines : RunLine(raw, ResolveScripts, MaxFree)

NextResolve == FindCommand \/ ModeLine

SpecResolve == Init /\ [][NextResolve]_vars

(***************************************************************************)
(* Properties of the session (checked under Spec).                          *)
(***************************************************************************)
\* the Interfaces map of the running configuration
Interfaces == sim.runningConfig.Interfaces

RECURSIVE Trimmed(_)
\* a line without its leading and trailing blanks
Trimmed(raw) ==
    IF raw = "" THEN ""
    ELSE IF Char(raw, 1) \in {" ", "\t"} THEN Trimmed(SubSeq(raw, 2, Len(raw)))
    ELSE IF Char(raw, Len(raw)) \in {" ", "\t"} THEN Trimmed(SubSeq(raw, 1, Len(raw) - 1))
    ELSE raw

\* the simulator s with the line raw recorded in its history: what the loop
\* hands to processCommand
Recorded(s, raw) == [s EXCEPT !.commandHistory = Append(@, Trimmed(raw))]

\* C1: in every reachable state every interface of the running configuration
\* has AdminStatus down => Status "administratively down"; AdminStatus up
\* with an IP address => Status "up"; AdminStatus up without => Status "down"
C1_InterfaceStatus ==
    \A n \in DOMAIN Interfaces :
        LET i == Interfaces[n]
        IN /\ i.AdminStatus \in {"up", "down"}
           /\ i.AdminStatus = "down" => i.Status = "administratively down"
           /\ (i.AdminStatus = "up" /\ i.IPAddress # "") => i.Status = "up"
           /\ (i.AdminStatus = "up" /\ i.IPAddress = "") => i.Status = "down"

\* one interface enabled with an address and up, the other enabled without an
\* address and down, after no ip address
C1_Witness ==
    /\ op = "Readline" /\ line = "no ip address" /\ err = NoErr
    /\ \E a, b \in DOMAIN Interfaces :
          /\ Interfaces[a].AdminStatus = "up" /\ Interfaces[a].IPAddress # ""
          /\ Interfaces[a].Status = "up"
          /\ Interfaces[b].AdminStatus = "up" /\ Interfaces[b].IPAddress = ""
          /\ Interfaces[b].Status = "down"

\* C2: a line for which processCommand returns an error leaves the hostname,
\* the interfaces with all their fields, the mode and the current interface
\* as they were before the line
C2_ErrorLeavesState ==
    [][(op' = "Readline" /\ err' # NoErr) =>
          /\ sim'.runningConfig = sim.runningConfig
          /\ sim'.mode = sim.mode
          /\ sim'.currentInterface = sim.currentInterface]_vars

\* ip address with a bad mask was refused on an interface that has an address
C2_Witness ==
    /\ op = "Readline" /\ invoked = "doIP"
    /\ line = "ip address 10.0.0.1 255.0.0.256"
    /\ err.kind = ErrPlain
    /\ sim.currentInterface \in DOMAIN Interfaces
    /\ Interfaces[sim.currentInterface].IPAddress = "10.0.0.1"

\* C3: the line exit moves GlobalConfig to PrivExec and InterfaceConfig to
\* GlobalConfig with the current interface cleared; it returns no error and
\* the session is not terminated
C3_ExitLeavesConfigMode ==
    [][(op' = "Readline" /\ line' = "exit") =>
          /\ sim.mode = ModeGlobalConfig =>
                (sim'.mode = ModePrivExec /\ err' = NoErr /\ ~terminated')
          /\ sim.mode = ModeInterfaceConfig =>
                (/\ sim'.mode = ModeGlobalConfig /\ sim'.currentInterface = ""
                 /\ err' = NoErr /\ ~terminated')]_vars

\* the modes in which the registration entries list the name
ValidModes(name) ==
    UNION {Range(commands[i].Modes) : i \in {j \in 1..Len(commands) : commands[j].Name = name}}

\* the modes of the registration entries that bind the handler to the name
BoundModes(name, handler) ==
    UNION {Range(commands[i].Modes) :
              i \in {j \in 1..Len(commands) :
                        commands[j].Name = name /\ commands[j].Handler = handler}}

\* C4: processCommand calls a handler only in a mode listed in the
\* registration entry that bound it, and a command name entered in a mode in
\* which it is not valid is refused as invalid input without a handler call
C4_HandlerOnlyInItsModes ==
    [][op' = "Readline" =>
          /\ (invoked' # "" /\ invoked' # "doHelp") =>
                sim.mode \in BoundModes(resolved', invoked')
          /\ (FirstWord(line') \in CommandNames
                /\ sim.mode \notin ValidModes(FirstWord(line'))) =>
                (err'.kind = ErrInvalidInput /\ invoked' = "")]_vars

\* the lines of the scenario before show running-config
ScenarioLines ==
    <<"conf t", "hostname Edge1", "int g0/0", "ip address 10.0.0.1 255.255.255.0", "end">>

RECURSIVE runLines(_, _)
\* the run loop reading the lines one after the other, none of which ranges
\* over the map or reads the clock: the simulator after them and whether every
\* line succeeded; a line that ends the process is the last one read
runLines(s, lns) ==
    IF Len(lns) = 0 THEN [sim |-> s, ok |-> TRUE]
    ELSE LET r == runLine(s, Head(lns), NoRuntime).res
         IN IF r.exit THEN [sim |-> r.sim, ok |-> FALSE]
            ELSE LET rest == runLines(r.sim, Tail(lns))
                 IN [sim |-> rest.sim, ok |-> r.err = NoErr /\ rest.ok]

\* seq holds the lines of run one after the other
ContainsRun(seq, run) ==
    \E i \in 1..(Len(seq) - Len(run) + 1) : SubSeq(seq, i, i + Len(run) - 1) = run

\* the scenario can start here: conf t is accepted and GigabitEthernet0/0 is new
ScenarioStart ==
    /\ ~terminated
    /\ sim.mode = ModePrivExec
    /\ "GigabitEthernet0/0" \notin DOMAIN Interfaces

\* from any state in which it can start, every line of the scenario succeeds
\* and every output that show running-config can then print satisfies P
ScenarioOutput(P(_)) ==
    ScenarioStart =>
        LET before == runLines(sim, ScenarioLines)
        IN /\ before.ok
           /\ \A iter \in iterationOrders(before.sim) :
                 LET r == runLine(before.sim, "show running-config", Runtime(iter, 0)).res
                 IN r.err = NoErr /\ P(r.out)

\* C5 as stated: the scenario's lines all succeed and the output of show
\* running-config holds "hostname Edge1", "interface GigabitEthernet0/0" and
\* " ip address 10.0.0.1 255.255.255.0" and no " shutdown" line
C5_ScenarioNoShutdown ==
    LET P(o) == /\ "hostname Edge1" \in Range(o)
                /\ "interface GigabitEthernet0/0" \in Range(o)
                /\ " ip address 10.0.0.1 255.255.255.0" \in Range(o)
                /\ " shutdown" \notin Range(o)
    IN ScenarioOutput(P)

\* C5 amended: the scenario's lines all succeed and the output of show
\* running-config holds "hostname Edge1" and the block of GigabitEthernet0/0
\* with its address and, the interface having been created administratively
\* down, a " shutdown" line
C5_ScenarioShutdown ==
    LET P(o) == /\ "hostname Edge1" \in Range(o)
                /\ ContainsRun(o, <<"interface GigabitEthernet0/0",
                                    " ip address 10.0.0.1 255.255.255.0",
                                    " shutdown", "!">>)
    IN ScenarioOutput(P)

\* show running-config has printed the configuration the scenario leaves
C5_Witness ==
    /\ op = "Readline" /\ line = "show running-config" /\ err = NoErr
    /\ sim.mode = ModePrivExec
    /\ Interfaces = ("GigabitEthernet0/0" :>
                        [IPAddress |-> "10.0.0.1", SubnetMask |-> "255.255.255.0",
                         Status |-> "administratively down", AdminStatus |-> "down"])
    /\ "hostname Edge1" \in Range(out)
    /\ ContainsRun(out, <<"interface GigabitEthernet0/0",
                          " ip address 10.0.0.1 255.255.255.0", " shutdown", "!">>)

\* C9: the mode is InterfaceConfig exactly when the current interface is not
\* empty, and a current interface that is not empty is a key of Interfaces
C9_CurrentInterface ==
    /\ sim.mode = ModeInterfaceConfig <=> sim.currentInterface # ""
    /\ sim.currentInterface # "" => sim.currentInterface \in DOMAIN Interfaces

\* end has left the configuration of the second of two interfaces
C9_Witness ==
    /\ op = "Readline" /\ invoked = "doEnd" /\ err = NoErr
    /\ sim.mode = ModePrivExec /\ sim.currentInterface = ""
    /\ Cardinality(DOMAIN Interfaces) = 2

\* the lines that give an extra word to a command that takes no arguments
ExtraArgLines ==
    {"enable now", "disable now", "end now", "exit now", "quit now", "shutdown now",
     "no shutdown now", "no ip address now", "show version now",
     "show running-config now", "show history now", "history now"}

\* C10: a command that takes no arguments, given an extra word, returns an
\* error and leaves the mode and the configuration as they were
C10_ExtraArgumentRefused ==
    [][(op' = "Readline" /\ line' \in ExtraArgLines) =>
          /\ err' # NoErr
          /\ ~terminated'
          /\ sim'.mode = sim.mode
          /\ sim'.runningConfig = sim.runningConfig]_vars

(***************************************************************************)
(* Properties of the resolver (checked under SpecResolve).                  *)
(***************************************************************************)
\* tok is a prefix of name when letter case is ignored
FoldPrefix(name, tok) ==
    /\ Len(tok) <= Len(name)
    /\ \A i \in 1..Len(tok) : ToLowerChar(Char(name, i)) = ToLowerChar(Char(tok, i))

\* the names the registration entries make valid in mode m
ValidNames(m) == {n \in CommandNames : m \in ValidModes(n)}

\* C6: a token equal to the full name of a command valid in the mode, in any
\* letter case, resolves to that command and to no error
C6_FullNameResolves ==
    op = "findCommandByAbbreviation" =>
        \A n \in ValidNames(sim.mode) :
            (Len(line) = Len(n) /\ FoldPrefix(n, line)) =>
                (resolved = n /\ err = NoErr)

\* EXIT has resolved to exit in GlobalConfig
C6_Witness ==
    /\ op = "findCommandByAbbreviation"
    /\ sim.mode = ModeGlobalConfig
    /\ line = "EXIT" /\ resolved = "exit" /\ err = NoErr

\* C7: for a token other than "?", with C the names valid in the mode that
\* have the token as a prefix ignoring case: invalid input when C is empty,
\* the one name when C has one, and when C has several the name equal to the
\* token ignoring case, or else the ambiguous-command error; a name returned
\* is in C
C7_ResolverOutcome ==
    (op = "findCommandByAbbreviation" /\ line # "?") =>
        LET C == {n \in ValidNames(sim.mode) : FoldPrefix(n, line)}
            exact == {n \in C : Len(n) = Len(line)}
        IN /\ C = {} => (err.kind = ErrInvalidInput /\ resolved = "")
           /\ Cardinality(C) = 1 => (err = NoErr /\ resolved \in C)
           /\ (Cardinality(C) > 1 /\ exact # {}) => (err = NoErr /\ resolved \in exact)
           /\ (Cardinality(C) > 1 /\ exact = {}) =>
                 (err.kind = ErrAmbiguousCommand /\ resolved = "")
           /\ err = NoErr => resolved \in C
           /\ err.kind \in {"nil", ErrInvalidInput, ErrAmbiguousCommand}

\* e is ambiguous in UserExec (enable, exit)
C7_Witness ==
    /\ op = "findCommandByAbbreviation"
    /\ sim.mode = ModeUserExec
    /\ line = "e" /\ err.kind = ErrAmbiguousCommand /\ resolved = ""

\* a simulator as constructed, put in mode m
RefSim(m) == [NewCiscoDeviceSimulator("Router") EXCEPT !.mode = m]

\* C8: resolving changes no session state, and its outcome (the command or
\* the kind of error) is the one the same token has in the same mode in a
\* session with another hostname, no interfaces and no current interface
C8_ResolutionPure ==
    [][op' = "findCommandByAbbreviation" =>
          /\ sim' = sim /\ terminated' = terminated
          /\ LET ref == findCommandByAbbreviation(RefSim(sim.mode), line')
             IN resolved' = ref.def.Name /\ err'.kind = ref.err.kind]_vars

\* sh has resolved to shutdown in the configuration of an interface of Edge1
C8_Witness ==
    /\ op = "findCommandByAbbreviation"
    /\ sim.mode = ModeInterfaceConfig
    /\ sim.runningConfig.Hostname = "Edge1"
    /\ sim.currentInterface = "GigabitEthernet0/0"
    /\ line = "sh" /\ resolved = "shutdown" /\ err = NoErr

(***************************************************************************)
(* The mode commands (checked under SpecMode).                              *)
(***************************************************************************)
\* the input lines of SpecMode
ModeSpecLines ==
    {"enable", "disable", "exit", "quit", "end",
     "conf t", "configure", "configure terminal", "configure TERM", "configure T",
     "configure tx", "configure foo", "configure terminalx",
     "hostname Edge1", "interface f0/1", "no shutdown"}

\* the scripts of SpecMode: a renamed device with an interface is brought back
\* to UserExec; an interface is enabled
ModeScripts ==
    {<<"enable", "conf t", "hostname Edge1", "interface f0/1", "end", "disable">>,
     <<"enable", "conf t", "interface f0/1", "no shutdown", "end">>}
\* the run loop reads one of the lines of SpecMode
ModeSpecLine == \E raw \in ModeSpecLines : RunLine(raw, ModeScripts, MaxFree)

NextMode == ModeSpecLine \/ ReadEOF

SpecMode == Init /\ [][NextMode]_vars

\* the argument words of a line
ArgsOf(ln) == SliceFrom(Fields(ln), 1)

\* C11: in PrivExec configure <arg> moves to GlobalConfig when <arg> is a
\* non-empty prefix of "terminal" ignoring case; when it is absent or is no
\* prefix of "terminal" the line fails with the incomplete-command error and
\* the mode stays PrivExec
C11_ConfigureTerminal ==
    [][(op' = "Readline" /\ sim.mode = ModePrivExec
          /\ FirstWord(line') \in {"conf", "configure"}) =>
          LET args == ArgsOf(line')
              isTerminal == /\ Len(args) >= 1
                            /\ Len(args[1]) >= 1
                            /\ FoldPrefix("terminal", args[1])
          IN /\ isTerminal => (err' = NoErr /\ sim'.mode = ModeGlobalConfig)
             /\ ~isTerminal => (/\ err'.kind = ErrIncompleteCommand
                                /\ sim'.mode = ModePrivExec)]_vars

\* C13: in UserExec and PrivExec the lines exit and quit resolve and
\* terminate the session; in GlobalConfig and InterfaceConfig neither does
C13_ExitQuitTerminate ==
    [][(op' = "Readline" /\ line' \in {"exit", "quit"}) =>
          /\ sim.mode \in {ModeUserExec, ModePrivExec} =>
                (resolved' = line' /\ err' = NoErr /\ terminated')
          /\ sim.mode \in {ModeGlobalConfig, ModeInterfaceConfig} => ~terminated']_vars

\* C18: enable in UserExec moves to PrivExec, disable in PrivExec moves to
\* UserExec, end in GlobalConfig or InterfaceConfig moves to PrivExec and
\* clears the current interface; none changes the hostname or an interface
C18_EnableDisableEnd ==
    [][op' = "Readline" =>
          /\ (line' = "enable" /\ sim.mode = ModeUserExec) =>
                (/\ err' = NoErr /\ sim'.mode = ModePrivExec
                 /\ sim'.currentInterface = sim.currentInterface
                 /\ sim'.runningConfig = sim.runningConfig)
          /\ (line' = "disable" /\ sim.mode = ModePrivExec) =>
                (/\ err' = NoErr /\ sim'.mode = ModeUserExec
                 /\ sim'.currentInterface = sim.currentInterface
                 /\ sim'.runningConfig = sim.runningConfig)
          /\ (line' = "end" /\ sim.mode \in {ModeGlobalConfig, ModeInterfaceConfig}) =>
                (/\ err' = NoErr /\ sim'.mode = ModePrivExec
                 /\ sim'.currentInterface = ""
                 /\ sim'.runningConfig = sim.runningConfig)]_vars

\* disable has returned a session with a hostname and an interface to UserExec
C18_Witness ==
    /\ op = "Readline" /\ line = "disable" /\ invoked = "doDisable"
    /\ err = NoErr /\ sim.mode = ModeUserExec
    /\ sim.runningConfig.Hostname = "Edge1"
    /\ "FastEthernet0/1" \in DOMAIN Interfaces

(***************************************************************************)
(* Addressing and shutdown of an interface (checked under SpecIP).          *)
(***************************************************************************)
\* the input lines of SpecIP
IPSpecLines ==
    {"enable", "conf t", "interface f0/1", "end",
     "ip address 10.0.0.1 255.255.255.0", "ip address 192.168.1.1 255.255.0.0",
     "ip address ::1 255.255.255.0", "ip address 10.0.0.1 ffff::",
     "ip address 10.0.0 255.0.0.0", "ip address 256.0.0.1 255.0.0.0",
     "ip address 10.0.0.1 255.0.0.256", "ip address host 255.0.0.0",
     "shutdown", "no shutdown", "no ip address"}

\* the script of SpecIP: FastEthernet0/1 is enabled, addressed and cleared,
\* then shut down, addressed and cleared, and GlobalConfig is entered again
IPScripts ==
    {<<"enable", "conf t", "interface f0/1", "no shutdown",
       "ip address 10.0.0.1 255.255.255.0", "no ip address", "shutdown",
       "ip address 192.168.1.1 255.255.0.0", "no ip address", "end", "conf t">>}
\* the run loop reads one of the lines of SpecIP
IPSpecLine == \E raw \in IPSpecLines : RunLine(raw, IPScripts, MaxFree)

NextIP == IPSpecLine \/ ReadEOF

SpecIP == Init /\ [][NextIP]_vars

\* a dotted quad: four fields of one to three decimal digits, each at most 255
DottedQuad(str) ==
    LET fs == SplitOn(str, ".")
    IN /\ Len(fs) = 4
       /\ \A i \in 1..4 : Len(fs[i]) \in 1..3 /\ AllIn(fs[i], DigitSet) /\ DecimalValue(fs[i]) <= 255

\* C12: ip address <ip> <mask> in InterfaceConfig stores the two operands in
\* the current interface when both are IPv4 literals; when either is not,
\* the line is refused and the interface keeps all its fields
C12_OnlyIPv4Accepted ==
    [][(op' = "Readline" /\ sim.mode = ModeInterfaceConfig
          /\ FirstWord(line') = "ip" /\ Len(ArgsOf(line')) = 3) =>
          LET args == ArgsOf(line')
              old == sim.runningConfig.Interfaces[sim.currentInterface]
              new == sim'.runningConfig.Interfaces[sim.currentInterface]
          IN /\ (DottedQuad(args[2]) /\ DottedQuad(args[3])) =>
                   (/\ err' = NoErr
                    /\ new.IPAddress = args[2] /\ new.SubnetMask = args[3])
             /\ ~(DottedQuad(args[2]) /\ DottedQuad(args[3])) =>
                   (err' # NoErr /\ new = old)]_vars

\* FastEthernet0/1 has no address in simulator s (or does not exist yet)
NoAddressYet(s) ==
    "FastEthernet0/1" \in DOMAIN s.runningConfig.Interfaces =>
        s.runningConfig.Interfaces["FastEthernet0/1"].IPAddress = ""

\* C14: from GlobalConfig the lines interface f0/1, shutdown, no shutdown,
\* with no address on FastEthernet0/1, leave it with AdminStatus up and Status
\* "down"; and in InterfaceConfig no shutdown succeeds, sets AdminStatus up
\* and sets Status "up" with an address and "down" without one
C14_NoShutdown ==
    /\ (sim.mode = ModeGlobalConfig /\ NoAddressYet(sim)) =>
          LET r == runLines(sim, <<"interface f0/1", "shutdown", "no shutdown">>)
              i == r.sim.runningConfig.Interfaces["FastEthernet0/1"]
          IN r.ok /\ i.AdminStatus = "up" /\ i.Status = "down"
    /\ sim.mode = ModeInterfaceConfig =>
          LET r == runLine(sim, "no shutdown", NoRuntime).res
              old == sim.runningConfig.Interfaces[sim.currentInterface]
              new == r.sim.runningConfig.Interfaces[sim.currentInterface]
          IN /\ r.err = NoErr
             /\ new.AdminStatus = "up"
             /\ new.Status = (IF old.IPAddress # "" THEN "up" ELSE "down")
             /\ new.IPAddress = old.IPAddress /\ new.SubnetMask = old.SubnetMask

\* no shutdown has left FastEthernet0/1, which has no address, enabled and down
C14_Witness ==
    /\ op = "Readline" /\ line = "no shutdown" /\ err = NoErr
    /\ sim.currentInterface = "FastEthernet0/1"
    /\ Interfaces["FastEthernet0/1"] =
          [IPAddress |-> "", SubnetMask |-> "", Status |-> "down", AdminStatus |-> "up"]

\* C15: no ip address in InterfaceConfig succeeds, clears IPAddress and
\* SubnetMask of the current interface and keeps AdminStatus; Status becomes
\* "down" when AdminStatus is up and stays "administratively down" when it
\* is down
C15_NoIPAddress ==
    [][(op' = "Readline" /\ line' = "no ip address"
          /\ sim.mode = ModeInterfaceConfig) =>
          LET old == sim.runningConfig.Interfaces[sim.currentInterface]
              new == sim'.runningConfig.Interfaces[sim.currentInterface]
          IN /\ err' = NoErr
             /\ new.IPAddress = "" /\ new.SubnetMask = ""
             /\ new.AdminStatus = old.AdminStatus
             /\ old.AdminStatus = "up" => new.Status = "down"
             /\ old.AdminStatus = "down" => new.Status = "administratively down"]_vars

\* no ip address has left an enabled interface without address and down
C15_Witness ==
    /\ op = "Readline" /\ line = "no ip address" /\ err = NoErr
    /\ invoked = "doNo"
    /\ sim.mode = ModeInterfaceConfig
    /\ Interfaces[sim.currentInterface] =
          [IPAddress |-> "", SubnetMask |-> "", Status |-> "down", AdminStatus |-> "up"]

(***************************************************************************)
(* Entering the configuration of an interface (checked under               *)
(* SpecInterface).                                                          *)
(***************************************************************************)
\* the lines that name GigabitEthernet0/0: the specs g0/0, gi0/0 and
\* GigabitEthernet0/0 in several letter cases, as one token and as two words
GigabitSpecLines ==
    {"interface g0/0", "interface gi0/0", "interface GigabitEthernet0/0",
     "interface G0/0", "interface GI0/0", "interface gigabitethernet0/0",
     "interface GIGABITETHERNET0/0", "int g 0/0", "interface Gi 0/0",
     "interface GigabitEthernet 0/0"}

\* the input lines of SpecInterface
InterfaceSpecLines ==
    GigabitSpecLines
    \cup {"enable", "conf t", "end", "no shutdown",
          "interface f0/1", "interface e1/2", "interface fx1 0/0", "interface g-x 0/0",
          "interface gi0 /0",
          "interface", "interface x0/0", "interface t0/1", "interface 0/0",
          "interface g0", "interface g0/", "interface g/0", "interface g0/0/0",
          "interface g 0 0", "interface g 0/", "interface x 0/0"}

\* the scripts of SpecInterface: GigabitEthernet0/0 is enabled, and then
\* FastEthernet0/1 is added and GigabitEthernet0/0 entered again, or
\* Ethernet1/2 is added
InterfaceScripts ==
    {<<"enable", "conf t", "interface g0/0", "no shutdown", "end", "conf t",
       "interface f0/1", "end", "conf t", "interface GIGABITETHERNET0/0">>,
     <<"enable", "conf t", "interface g0/0", "no shutdown", "end", "conf t",
       "interface e1/2">>}
\* the run loop reads one of the lines of SpecInterface
InterfaceSpecLine == \E raw \in InterfaceSpecLines : RunLine(raw, InterfaceScripts, MaxFree)

NextInterface == InterfaceSpecLine \/ ReadEOF

SpecInterface == Init /\ [][NextInterface]_vars

\* C16: in GlobalConfig every line of GigabitSpecLines succeeds and binds the
\* one name GigabitEthernet0/0: it becomes the current interface, it is the
\* only name the line can add, and an entry it already has is kept
C16_OneCanonicalName ==
    [][(op' = "Readline" /\ line' \in GigabitSpecLines
          /\ sim.mode = ModeGlobalConfig) =>
          /\ err' = NoErr
          /\ sim'.mode = ModeInterfaceConfig
          /\ sim'.currentInterface = "GigabitEthernet0/0"
          /\ DOMAIN sim'.runningConfig.Interfaces =
                DOMAIN sim.runningConfig.Interfaces \cup {"GigabitEthernet0/0"}
          /\ "GigabitEthernet0/0" \in DOMAIN sim.runningConfig.Interfaces =>
                sim'.runningConfig = sim.runningConfig]_vars

\* GIGABITETHERNET0/0 has bound the entry that already was enabled
C16_Witness ==
    /\ op = "Readline" /\ line = "interface GIGABITETHERNET0/0" /\ err = NoErr
    /\ sim.currentInterface = "GigabitEthernet0/0"
    /\ DOMAIN Interfaces = {"GigabitEthernet0/0", "FastEthernet0/1"}
    /\ Interfaces["GigabitEthernet0/0"].AdminStatus = "up"

\* the ways to read the argument words as <<type, number>>: the words joined,
\* split behind the leading letters; and, for two words, the words themselves
SpecReadings(args) ==
    LET joined == Join(args, "")
        nl == RunLen(joined, 1, LetterSet)
    IN {<<SubSeq(joined, 1, nl), SubSeq(joined, nl + 1, Len(joined))>>}
       \cup (IF Len(args) = 2 THEN {<<args[1], args[2]>>} ELSE {})

\* the type starts with g, f or e and the number is digits/digits
GoodReading(r) ==
    /\ Len(r[1]) >= 1 /\ ToLowerChar(Char(r[1], 1)) \in {"g", "f", "e"}
    /\ LET fs == SplitOn(r[2], "/")
       IN Len(fs) = 2 /\ \A i \in 1..2 : Len(fs[i]) >= 1 /\ AllIn(fs[i], DigitSet)

\* the normalized name of a good reading
CanonicalName(r) ==
    (CASE ToLowerChar(Char(r[1], 1)) = "g" -> "GigabitEthernet"
       [] ToLowerChar(Char(r[1], 1)) = "f" -> "FastEthernet"
       [] OTHER -> "Ethernet") \o r[2]

\* C17: interface <spec> in GlobalConfig succeeds when the spec has a type
\* that starts with g, f or e and a number digits/digits: the mode becomes
\* InterfaceConfig, the current interface the normalized name, a new name is
\* added shut down and without address and every other entry is kept; any
\* other spec fails and leaves mode, current interface and interfaces alone
C17_InterfaceCommand ==
    [][(op' = "Readline" /\ FirstWord(line') \in {"int", "interface"}
          /\ sim.mode = ModeGlobalConfig /\ Len(ArgsOf(line')) >= 1) =>
          LET good == {r \in SpecReadings(ArgsOf(line')) : GoodReading(r)}
              old == sim.runningConfig.Interfaces
              new == sim'.runningConfig.Interfaces
              name == sim'.currentInterface
          IN /\ good # {} =>
                   /\ err' = NoErr
                   /\ sim'.mode = ModeInterfaceConfig
                   /\ \E r \in good : name = CanonicalName(r)
                   /\ DOMAIN new = DOMAIN old \cup {name}
                   /\ \A n \in DOMAIN old : new[n] = old[n]
                   /\ name \notin DOMAIN old =>
                         new[name] = [IPAddress |-> "", SubnetMask |-> "",
                                      Status |-> "administratively down",
                                      AdminStatus |-> "down"]
                   /\ sim'.runningConfig.Hostname = sim.runningConfig.Hostname
             /\ good = {} =>
                   /\ err' # NoErr
                   /\ sim'.mode = sim.mode
                   /\ sim'.currentInterface = sim.currentInterface
                   /\ sim'.runningConfig = sim.runningConfig]_vars

\* interface e1/2 has added Ethernet1/2, shut down, beside an enabled interface
C17_Witness ==
    /\ op = "Readline" /\ line = "interface e1/2" /\ err = NoErr
    /\ sim.mode = ModeInterfaceConfig /\ sim.currentInterface = "Ethernet1/2"
    /\ Interfaces["Ethernet1/2"] =
          [IPAddress |-> "", SubnetMask |-> "", Status |-> "administratively down",
           AdminStatus |-> "down"]
    /\ \E n \in DOMAIN Interfaces : Interfaces[n].AdminStatus = "up"

(***************************************************************************)
(* The hostname command (checked under SpecHostname).                       *)
(***************************************************************************)
\* names of 63 and of 64 characters
Name63 == "n012345678901234567890123456789012345678901234567890123456789xy"
Name64 == Name63 \o "z"

\* the names SpecHostname tries: well formed, and malformed in each way
HostnameArgs ==
    {"R1", "a", "9", "Edge-1", "A--B", "Router", Name63,
     "-bad", "bad-", "-", "a_b", "a.b", "R1!", Name64, "n012345678901234567890123456789012345678901234567890123456789x-"}

\* the input lines of SpecHostname
HostnameSpecLines ==
    {"enable", "conf t", "end", "hostname", "hostname R1 extra", "hostname bad- R1"}
    \cup {"hostname " \o n : n \in HostnameArgs}

\* the scripts of SpecHostname: the device is renamed twice, to the name of
\* 63 characters last; it is renamed and GlobalConfig is entered again
HostnameScripts ==
    {<<"enable", "conf t", "hostname R1", "hostname " \o Name63, "end">>,
     <<"enable", "conf t", "hostname Edge-1", "end", "conf t">>}
\* the run loop reads one of the lines of SpecHostname
HostnameSpecLine == \E raw \in HostnameSpecLines : RunLine(raw, HostnameScripts, MaxFree)

NextHostname == HostnameSpecLine \/ ReadEOF

SpecHostname == Init /\ [][NextHostname]_vars

\* the grammar of a hostname: 1 to 63 characters, each a letter, a digit or a
\* hyphen, the first and the last not a hyphen
HostnameGrammar(name) ==
    /\ Len(name) >= 1 /\ Len(name) <= 63
    /\ \A i \in 1..Len(name) : Char(name, i) \in LetterSet \cup DigitSet \cup {"-"}
    /\ Char(name, 1) # "-" /\ Char(name, Len(name)) # "-"

\* C19: hostname <name> in GlobalConfig replaces the hostname by <name>, and
\* changes nothing else of the simulator the loop handed over (the line
\* recorded in its history), exactly when <name> satisfies the grammar; any
\* other name fails and changes nothing of it; and the hostname is always the
\* initial one or a name of the grammar
C19_HostnameGrammar ==
    /\ [](sim.runningConfig.Hostname = "Router"
            \/ HostnameGrammar(sim.runningConfig.Hostname))
    /\ [][(op' = "Readline" /\ FirstWord(line') = "hostname"
             /\ sim.mode = ModeGlobalConfig /\ Len(ArgsOf(line')) >= 1) =>
             IF HostnameGrammar(ArgsOf(line')[1])
             THEN /\ err' = NoErr
                  /\ sim' = [Recorded(sim, line') EXCEPT
                                !.runningConfig.Hostname = ArgsOf(line')[1]]
             ELSE /\ err' # NoErr
                  /\ sim' = Recorded(sim, line')]_vars

\* the name of 63 characters has replaced another configured hostname
C19_Witness ==
    /\ op = "Readline" /\ line = "hostname " \o Name63 /\ err = NoErr
    /\ sim.runningConfig.Hostname = Name63
    /\ sim.mode = ModeGlobalConfig

(***************************************************************************)
(* The order in which the show commands list the interfaces (checked       *)
(* under SpecShow).                                                         *)
(***************************************************************************)
\* the two commands that list the interfaces
ListingLines == {"show running-config", "show ip interface brief"}

\* the input lines of SpecShow
ShowSpecLines ==
    ListingLines
    \cup {"enable", "conf t", "end", "interface f0/1", "interface g0/2",
          "interface g0/10", "interface e0/0", "interface g00/2"}

\* the scripts of SpecShow: two interfaces with equal keys are listed; four
\* interfaces with different keys, created in descending order, are listed
ShowScripts ==
    {<<"enable", "conf t", "interface g0/2", "end", "conf t", "interface g00/2",
       "end", "show running-config">>,
     <<"enable", "conf t", "interface e0/0", "end", "conf t", "interface g0/10",
       "end", "conf t", "interface g0/2", "end", "conf t", "interface f0/1",
       "end", "show ip interface brief">>}
\* the run loop reads one of the lines of SpecShow
ShowSpecLine == \E raw \in ShowSpecLines : RunLine(raw, ShowScripts, MaxFree)

NextShow == ShowSpecLine \/ ReadEOF

SpecShow == Init /\ [][NextShow]_vars

\* the interface names in the output of show running-config, in its order
RunningConfigNames(o) ==
    LET isHead(l) == HasPrefix(l, "interface ")
        heads == SelectSeq(o, isHead)
    IN [i \in 1..Len(heads) |-> SubSeq(heads[i], 11, Len(heads[i]))]

\* the interface names in the rows of show ip interface brief, in its order
BriefNames(o) ==
    [i \in 1..(Len(o) - 1) |-> SubSeq(o[i + 1], 1, IndexRune(o[i + 1], " "))]

\* the key (type-weight, slot, port) of an interface name
ListingKey(name) ==
    LET nl == RunLen(name, 1, LetterSet)
        type == SubSeq(name, 1, nl)
        nums == SplitOn(SubSeq(name, nl + 1, Len(name)), "/")
    IN <<CASE type = "FastEthernet" -> 1
           [] type = "GigabitEthernet" -> 2
           [] type = "TenGigabitEthernet" -> 3
           [] OTHER -> 99,
         TrimZeros(nums[1]), TrimZeros(nums[2])>>

\* key a is at most key b, position by position
KeyLeq(a, b) ==
    \/ a[1] < b[1]
    \/ a[1] = b[1] /\ IntLess(a[2], b[2])
    \/ a[1] = b[1] /\ a[2] = b[2] /\ ~IntLess(b[3], a[3])

\* C20: once one of the two commands has listed the interfaces, the listing
\* holds each configured interface once, ascending by (type-weight, slot,
\* port), and it is the order in which either command lists them whenever it
\* is given
C20_SameAscendingOrder ==
    (op = "Readline" /\ line \in ListingLines /\ err = NoErr) =>
        LET listed == IF line = "show running-config"
                      THEN RunningConfigNames(out) ELSE BriefNames(out)
        IN /\ Len(listed) = Cardinality(DOMAIN Interfaces)
           /\ Range(listed) = DOMAIN Interfaces
           /\ \A i \in 1..(Len(listed) - 1) :
                 KeyLeq(ListingKey(listed[i]), ListingKey(listed[i + 1]))
           /\ \A iter \in iterationOrders(sim) :
                 /\ RunningConfigNames(showRunningConfig(sim, <<>>, iter).out) = listed
                 /\ BriefNames(showIPInterfaceBrief(sim, <<>>, iter).out) = listed

(***************************************************************************)
(* The run loop on blank lines, padded lines and lines that fail (checked  *)
(* under SpecRun).                                                          *)
(***************************************************************************)
\* the lines read under SpecRun: blank ones, padded ones, and one that fails
\* with each kind of error in some mode
RunSpecLines ==
    {"", " \t ", "  enable ", "conf  T", "interface f0/1",
     "ip address 10.0.0.1 255.0.0.256", "e", "configure", "show version now",
     "no hostname", "history"}

\* the run loop reads one of the lines of SpecRun
RunSpecLine == \E raw \in RunSpecLines : RunLine(raw, {<<>>}, MaxHistory)

NextRun == RunSpecLine \/ ReadEOF \/ ReadInterrupt \/ ReadError

SpecRun == Init /\ [][NextRun]_vars

(***************************************************************************)
(* runBasic, the loop run falls back to when readline cannot be set up: it *)
(* reads the lines from standard input, line terminator included, handles  *)
(* them as run does, and ends the session at end of input in any mode.     *)
(***************************************************************************)
\* one iteration of runBasic on the line raw
BasicLine(raw) ==
    /\ ~terminated
    /\ Follows({<<>>}, MaxHistory, TrimSpace(raw))
    /\ \E rt \in Runtimes(sim, TrimSpace(raw)) :
          Reads(raw, runLine(sim, raw, rt), "runBasic")

\* end of input in runBasic: it prints exit and returns nil, in any mode, and
\* main returns
BasicEOF ==
    /\ ~terminated
    /\ sim' = sim
    /\ line' = ""
    /\ err' = NoErr
    /\ out' = <<"exit">>
    /\ logged' = <<>>
    /\ resolved' = ""
    /\ invoked' = ""
    /\ terminated' = TRUE
    /\ op' = "runBasic"

\* ReadString fails with an error other than io.EOF
BasicReadError ==
    /\ ~terminated
    /\ \E msg \in ReadErrorTexts : readFailure("Error reading input: ", msg)
    /\ op' = "runBasic"

\* the lines read under SpecBasic, with their terminators
BasicSpecLines ==
    {"\n", " \t\r\n", "enable\n", "  conf  T \r\n", "interface f0/1\n", "end\n",
     "zzz\n", "e\n", "history\n", "show version\n", "exit\n"}

\* runBasic reads one of the lines of SpecBasic
BasicSpecLine == \E raw \in BasicSpecLines : BasicLine(raw)

NextBasic == BasicSpecLine \/ BasicEOF \/ BasicReadError

SpecBasic == Init /\ [][NextBasic]_vars

\* C21: a step that reads a line of blanks changes nothing of the session; a
\* step that reads any other line appends the trimmed line to the history and
\* leaves the entries before it as they were; no other step changes the
\* history
C21_HistoryAppendOnly ==
    [][IF op' = "Readline"
       THEN IF Trimmed(line') = ""
            THEN sim' = sim /\ ~terminated'
            ELSE sim'.commandHistory = sim.commandHistory \o <<Trimmed(line')>>
       ELSE sim'.commandHistory = sim.commandHistory]_vars

\* the history holds four lines in the order read, a padded one trimmed and
\* a failed one included, and a blank line was read last
C21_Witness ==
    /\ op = "Readline" /\ line = " \t "
    /\ sim.commandHistory = <<"enable", "conf  T", "e", "interface f0/1">>

\* C22 as stated: a line that fails leaves the whole simulator, the command
\* history included, as it was, and the loop goes on
C22_ErrorLeavesSession ==
    [][(op' = "Readline" /\ err' # NoErr) =>
          sim' = sim /\ ~terminated']_vars

\* C22 amended: a line that fails leaves mode, current interface, hostname
\* and interfaces as they were and the loop goes on; the command history
\* has grown by the line, which the loop records before it processes it
C22_ErrorKeepsAllButHistory ==
    [][(op' = "Readline" /\ err' # NoErr) =>
          /\ sim' = [sim EXCEPT !.commandHistory = sim.commandHistory \o <<Trimmed(line')>>]
          /\ ~terminated']_vars

\* an address line with a bad mask has failed in InterfaceConfig
C22_Witness ==
    /\ op = "Readline" /\ line = "ip address 10.0.0.1 255.0.0.256" /\ err # NoErr
    /\ sim.mode = ModeInterfaceConfig /\ sim.currentInterface = "FastEthernet0/1"
    /\ sim.commandHistory[Len(sim.commandHistory)] = line

(***************************************************************************)
(* The invalid-input diagnostic (checked under SpecMarker).                 *)
(***************************************************************************)
\* the lines read under SpecMarker: unknown words as the command and as the
\* word behind show and no, typed in full and abbreviated
MarkerSpecLines ==
    {"enable", "conf t", "zzz", " Zzz now", "show zz", "sh  W", "show w",
     "no x", "n  Qq"}

\* the run loop reads one of the lines of SpecMarker
MarkerSpecLine == \E raw \in MarkerSpecLines : RunLine(raw, {<<>>}, MaxHistory)

NextMarker == MarkerSpecLine \/ ReadEOF

SpecMarker == Init /\ [][NextMarker]_vars

RECURSIVE TokenStart(_, _, _)
\* the column (from 0) at which the k-th word of ln starts, looking from
\* column i on
TokenStart(ln, k, i) ==
    IF i >= Len(ln) THEN i
    ELSE IF Char(ln, i + 1) \in {" ", "\t"} THEN TokenStart(ln, k, i + 1)
    ELSE IF k = 1 THEN i
    ELSE TokenStart(ln, k - 1, i + WordLen(ln, i + 1))

\* C23: when a line has failed with the invalid-input error, the last two
\* lines printed are the line as processed and a caret line whose caret is
\* in the column of the unknown word: the first word when no command was
\* resolved, the word behind the command when show or no refused it
C23_CaretUnderToken ==
    [][(op' = "Readline" /\ err'.kind = ErrInvalidInput) =>
          LET ln == Trimmed(line')
              col == TokenStart(ln, IF resolved' = "" THEN 1 ELSE 2, 0)
              n == Len(out')
          IN /\ n >= 2
             /\ out'[n - 1] = "  " \o ln
             /\ Len(out'[n]) = col + 3
             /\ Char(out'[n], col + 3) = "^"
             /\ AllIn(SubSeq(out'[n], 1, col + 2), {" "})]_vars

(***************************************************************************)
(* Handlers with positional arguments (checked under SpecArgs).             *)
(***************************************************************************)
\* lines that lack the first word of what the handler requires
MissingArgLines == {"configure", "hostname", "ip", "show ip", "no"}

\* lines with the required words begun and too few or too many of them
WrongCountLines ==
    {"configure terminal extra", "hostname R1 extra", "ip address",
     "ip address 10.0.0.1", "ip address 10.0.0.1 255.0.0.0 extra",
     "show ip interface brief extra", "no shutdown extra", "no ip address extra"}

\* the input lines of SpecArgs
ArgsSpecLines ==
    MissingArgLines \cup WrongCountLines
    \cup {"enable", "conf t", "interface f0/1", "end", "hostname R1",
          "ip address 10.0.0.1 255.0.0.0", "show ip interface",
          "show ip interface brief", "no shutdown"}

\* the script of SpecArgs: a renamed device with an interface that is
\* addressed and enabled
ArgsScripts ==
    {<<"enable", "conf t", "hostname R1", "interface f0/1",
       "ip address 10.0.0.1 255.0.0.0", "no shutdown", "end">>}
\* the run loop reads one of the lines of SpecArgs
ArgsSpecLine == \E raw \in ArgsSpecLines : RunLine(raw, ArgsScripts, MaxFree)

NextArgs == ArgsSpecLine \/ ReadEOF

SpecArgs == Init /\ [][NextArgs]_vars

\* C24: when the handler of a line of MissingArgLines is called the line fails
\* with the incomplete-command error, when the handler of a line of
\* WrongCountLines is called (for no shutdown and no ip address: in
\* InterfaceConfig, where these are targets of no) the line fails with the
\* bad-arguments error, and in both cases the handler leaves the simulator as
\* the loop handed it over, the line recorded in its history
C24_ArgumentErrors ==
    [][(op' = "Readline" /\ invoked' # ""
          /\ line' \in MissingArgLines \cup WrongCountLines
          /\ (FirstWord(line') = "no" /\ line' # "no" => sim.mode = ModeInterfaceConfig)) =>
          /\ err'.kind = IF line' \in MissingArgLines
                         THEN ErrIncompleteCommand ELSE ErrBadArguments
          /\ sim' = Recorded(sim, line')]_vars

(***************************************************************************)
(* Abbreviations in each mode (checked under SpecResolve).                 *)
(***************************************************************************)
\* C25: in PrivExec sh resolves to show, every non-empty prefix of a name
\* valid in PrivExec resolves to that name, and no token is ambiguous; in the
\* three other modes e is ambiguous
C25_PrivExecUnambiguous ==
    op = "findCommandByAbbreviation" =>
        /\ sim.mode = ModePrivExec =>
              /\ line = "sh" => (resolved = "show" /\ err = NoErr)
              /\ \A n \in ValidNames(ModePrivExec) :
                    (Len(line) >= 1 /\ FoldPrefix(n, line)) =>
                        (resolved = n /\ err = NoErr)
              /\ err.kind # ErrAmbiguousCommand
        /\ (sim.mode # ModePrivExec /\ line = "e") =>
              (err.kind = ErrAmbiguousCommand /\ resolved = "")

\* sh has resolved to show in PrivExec
C25_Witness ==
    /\ op = "findCommandByAbbreviation"
    /\ sim.mode = ModePrivExec
    /\ line = "sh" /\ resolved = "show" /\ err = NoErr

(***************************************************************************)
(* The targets of no (checked under SpecNo).                                *)
(***************************************************************************)
\* the input lines of SpecNo
NoSpecLines ==
    {"enable", "conf t", "interface f0/1", "end", "hostname R1",
     "ip address 10.0.0.1 255.0.0.0",
     "no shutdown", "no sh", "no SHUT", "no ip address", "no i a", "no ip",
     "no hostname", "no h", "no hostname R1", "no interface f0/1", "no int",
     "no INTERFACE", "n i", "no x", "no shutdownx", "no hostnamex"}

\* the script of SpecNo: a renamed device with an interface that is addressed
\* and enabled, and no hostname R1 entered in GlobalConfig
NoScripts ==
    {<<"enable", "conf t", "hostname R1", "interface f0/1",
       "ip address 10.0.0.1 255.0.0.0", "no shutdown", "end", "conf t",
       "no hostname R1">>}
\* the run loop reads one of the lines of SpecNo
NoSpecLine == \E raw \in NoSpecLines : RunLine(raw, NoScripts, MaxFree)

NextNo == NoSpecLine \/ ReadEOF

SpecNo == Init /\ [][NextNo]_vars

\* the targets of no in mode m
NoTargets(m) ==
    IF m = ModeInterfaceConfig THEN {"shutdown", "ip"}
    ELSE IF m = ModeGlobalConfig THEN {"hostname", "interface"}
    ELSE {}

\* C26: no <word> in a configuration mode fails with the invalid-input error
\* and changes nothing but the history, which holds the line, when <word> is
\* a prefix of no target of that mode, and with another outcome when it is a
\* prefix of one; in GlobalConfig every no line fails and changes nothing but
\* the history, a word that resolves being rejected with an error outside the
\* four input errors
C26_NoTargets ==
    [][(op' = "Readline" /\ resolved' = "no" /\ Len(ArgsOf(line')) >= 1) =>
          LET hits == {t \in NoTargets(sim.mode) : FoldPrefix(t, ArgsOf(line')[1])}
          IN /\ hits = {} => (err'.kind = ErrInvalidInput /\ sim' = Recorded(sim, line'))
             /\ hits # {} => err'.kind # ErrInvalidInput
             /\ sim.mode = ModeGlobalConfig =>
                   /\ err' # NoErr /\ sim' = Recorded(sim, line')
                   /\ hits # {} => err'.kind = ErrPlain]_vars

\* no hostname R1 has been refused in GlobalConfig with the hostname set and
\* an interface configured
C26_Witness ==
    /\ op = "Readline" /\ line = "no hostname R1" /\ err.kind = ErrPlain
    /\ sim.mode = ModeGlobalConfig
    /\ sim.runningConfig.Hostname = "R1"
    /\ "FastEthernet0/1" \in DOMAIN Interfaces

(***************************************************************************)
(* The targets of show (checked under SpecShowWord).                        *)
(***************************************************************************)
\* the input lines of SpecShowWord; no interface is configured under it, so
\* the map that the listings range over is empty
ShowWordSpecLines ==
    {"enable", "disable", "conf t", "hostname R1", "hostname R2", "end",
     "show v", "show VERSION", "show r", "show ru", "show run", "show RUN",
     "show running-config", "show Running", "show i", "show ip", "show h",
     "show history", "show Hist", "show x", "show runx", "show versionx"}

\* the scripts of SpecShowWord: the device is renamed and brought back to
\* UserExec; it is renamed to another name
ShowWordScripts ==
    {<<"enable", "conf t", "hostname R1", "end", "disable">>,
     <<"enable", "conf t", "hostname R2", "end">>}
\* the run loop reads one of the lines of SpecShowWord
ShowWordSpecLine == \E raw \in ShowWordSpecLines : RunLine(raw, ShowWordScripts, MaxFree)

NextShowWord == ShowWordSpecLine \/ ReadEOF

SpecShowWord == Init /\ [][NextShowWord]_vars

\* the four targets of show
ShowTargets == {"version", "running-config", "ip", "history"}

\* C27: show <word> fails with the invalid-input error when <word> is a
\* prefix, ignoring case, of none of the four targets; when it is a prefix of
\* exactly one, that target is rendered: the version, the running
\* configuration or the history is printed, and ip asks for the words
\* interface brief
C27_ShowTargets ==
    [][(op' = "Readline" /\ resolved' = "show" /\ Len(ArgsOf(line')) = 1) =>
          LET hits == {t \in ShowTargets : FoldPrefix(t, ArgsOf(line')[1])}
          IN /\ hits = {} => err'.kind = ErrInvalidInput
             /\ hits = {"version"} =>
                   (err' = NoErr /\ out'[1] = "Basic Cisco IOS Simulator (Go)")
             /\ hits = {"running-config"} =>
                   (err' = NoErr /\ out'[1] = "Building configuration...")
             /\ hits = {"history"} =>
                   (err' = NoErr /\ out'[1] = "Command History:")
             /\ hits = {"ip"} => err'.kind = ErrIncompleteCommand]_vars

(***************************************************************************)
(* The text of show running-config (checked under Spec).                    *)
(***************************************************************************)
\* the lines of o behind the line "interface <name>" up to the next "!"
BlockOf(o, name) ==
    LET head == CHOOSE i \in 1..Len(o) : o[i] = "interface " \o name
        close == CHOOSE j \in (head + 1)..Len(o) :
                    o[j] = "!" /\ \A k \in (head + 1)..(j - 1) : o[k] # "!"
    IN {o[k] : k \in (head + 1)..(close - 1)}

\* C28: in the output of a successful show running-config every interface
\* has one block; the block holds an address line exactly when the interface
\* has an address, and then the line " ip address <ip> <mask>" of its
\* address and mask; it holds " shutdown" exactly when AdminStatus is down;
\* the output holds the hostname line of the current hostname and its last
\* line is "end"
C28_RunningConfigText ==
    (op = "Readline" /\ err = NoErr /\ invoked = "doShow" /\ Len(out) >= 1
       /\ out[1] = "Building configuration...") =>
        /\ "hostname " \o sim.runningConfig.Hostname \in Range(out)
        /\ \A l \in Range(out) :
              HasPrefix(l, "hostname ") => l = "hostname " \o sim.runningConfig.Hostname
        /\ out[Len(out)] = "end"
        /\ \A n \in DOMAIN Interfaces :
              /\ Cardinality({i \in 1..Len(out) : out[i] = "interface " \o n}) = 1
              /\ LET block == BlockOf(out, n)
                     addr == {l \in block : HasPrefix(l, " ip address")}
                 IN /\ addr # {} <=> Interfaces[n].IPAddress # ""
                    /\ addr \subseteq {" ip address " \o Interfaces[n].IPAddress
                                         \o " " \o Interfaces[n].SubnetMask}
                    /\ " shutdown" \in block <=> Interfaces[n].AdminStatus = "down"

\* the running configuration of Edge1 has been shown with an interface that
\* is enabled and has no address
C28_Witness ==
    /\ op = "Readline" /\ err = NoErr /\ line = "show running-config"
    /\ sim.runningConfig.Hostname = "Edge1"
    /\ \E n \in DOMAIN Interfaces :
          /\ Interfaces[n].AdminStatus = "up" /\ Interfaces[n].IPAddress = ""
          /\ BlockOf(out, n) = {}

(***************************************************************************)
(* The set of interfaces and the moves between the modes (checked under    *)
(* Spec).                                                                   *)
(***************************************************************************)
\* C29: no step removes an interface name, and a step that adds one is a
\* successful interface line
C29_InterfacesOnlyGrow ==
    [][/\ DOMAIN sim.runningConfig.Interfaces \subseteq DOMAIN sim'.runningConfig.Interfaces
       /\ DOMAIN sim'.runningConfig.Interfaces # DOMAIN sim.runningConfig.Interfaces =>
             (op' = "Readline" /\ resolved' = "interface" /\ err' = NoErr)]_vars

\* an interface line has added a second interface after the hostname was set
C29_Witness ==
    /\ op = "Readline" /\ resolved = "interface" /\ err = NoErr
    /\ Cardinality(DOMAIN Interfaces) = 2
    /\ sim.runningConfig.Hostname = "Edge1"
    /\ Interfaces[sim.currentInterface].IPAddress = ""
    /\ \E n \in DOMAIN Interfaces : Interfaces[n].IPAddress # ""

\* the moves between modes: <<mode before, mode after, command>>
ModeMoves ==
    {<<ModeUserExec, ModePrivExec, "enable">>,
     <<ModePrivExec, ModeUserExec, "disable">>,
     <<ModePrivExec, ModeGlobalConfig, "configure">>,
     <<ModeGlobalConfig, ModeInterfaceConfig, "interface">>,
     <<ModeGlobalConfig, ModePrivExec, "exit">>,
     <<ModeGlobalConfig, ModePrivExec, "end">>,
     <<ModeInterfaceConfig, ModeGlobalConfig, "exit">>,
     <<ModeInterfaceConfig, ModePrivExec, "end">>}

\* C30: a processed line that changes the mode makes one of the moves of
\* ModeMoves with the command of that move, and a processed line that leaves
\* the session in InterfaceConfig leaves the current interface as it was
C30_ModeMoves ==
    [][op' = "Readline" =>
          /\ sim'.mode # sim.mode => <<sim.mode, sim'.mode, resolved'>> \in ModeMoves
          /\ (sim.mode = ModeInterfaceConfig /\ sim'.mode = ModeInterfaceConfig) =>
                sim'.currentInterface = sim.currentInterface]_vars

\* configure has moved a session that has an enabled interface from PrivExec
\* to GlobalConfig
C30_Witness ==
    /\ op = "Readline" /\ resolved = "configure" /\ err = NoErr
    /\ sim.mode = ModeGlobalConfig
    /\ \E n \in DOMAIN Interfaces : Interfaces[n].AdminStatus = "up"

(***************************************************************************)
(* C31: no mode is a trap.                                                 *)
(***************************************************************************)
\* sequences of input lines that move between the modes: each of them is tried
\* from the state at hand
ModeRoutes ==
    { <<>>,
      <<"enable">>, <<"disable">>, <<"end">>, <<"conf t">>, <<"interface f0/1">>,
      <<"end", "disable">>, <<"enable", "conf t">>, <<"end", "conf t">>,
      <<"conf t", "interface f0/1">>,
      <<"end", "conf t", "interface f0/1">>,
      <<"enable", "conf t", "interface f0/1">> }

\* some route brings the session from s into mode m, every line of it accepted
ReachesMode(s, m) ==
    \E r \in ModeRoutes : LET a == runLines(s, r) IN a.ok /\ a.sim.mode = m

\* some sequence of lines ends the session from s: the line exit, after end
\* where exit is refused
ReachesExit(s) ==
    \E r \in {<<>>, <<"end">>} :
        LET a == runLines(s, r)
        IN a.ok /\ runLine(a.sim, "exit", NoRuntime).res.exit

\* C31: from every reachable session that has not terminated, for each of the
\* four modes some finite sequence of input lines brings the session into that
\* mode, and some finite sequence of input lines terminates the session.
C31_NoModeIsATrap ==
    ~terminated => /\ \A m \in Modes : ReachesMode(sim, m)
                   /\ ReachesExit(sim)

\* the session is in InterfaceConfig, where exit is refused, and lines lead
\* from there back to UserExec and to the end of the session
C31_Witness ==
    /\ ~terminated
    /\ sim.mode = ModeInterfaceConfig
    /\ runLine(sim, "exit", NoRuntime).res.err # NoErr
    /\ ReachesMode(sim, ModeUserExec)
    /\ ReachesExit(sim)

(***************************************************************************)
(* C32: the inspection commands and ? change nothing.  SpecInspect feeds   *)
(* them, well-formed and malformed, in every mode of a session that has    *)
(* renamed the device and configured two interfaces.                       *)
(***************************************************************************)
\* the inspection lines: the five commands and ?, and malformed uses of them
InspectLines ==
    {"show version", "show running-config", "show ip interface brief",
     "show history", "history", "?",
     "show version now", "show running-config now", "show history now",
     "history now", "show r", "show zz", "show"}

InspectSpecLines ==
    InspectLines \cup
    {"enable", "disable", "conf t", "end", "hostname Edge1",
     "interface f0/1", "int g0/0", "no shutdown"}

\* the script of SpecInspect: a renamed device with two interfaces, one of
\* them enabled, shows its version and is brought back to UserExec
InspectScripts ==
    {<<"enable", "conf t", "hostname Edge1", "interface f0/1", "no shutdown", "end",
       "conf t", "int g0/0", "end", "show version", "disable">>}
\* the run loop reads one of the lines of SpecInspect
InspectSpecLine == \E raw \in InspectSpecLines : RunLine(raw, InspectScripts, MaxFree)

NextInspect == InspectSpecLine \/ ReadEOF

SpecInspect == Init /\ [][NextInspect]_vars

\* C32: show version, show running-config, show ip interface brief, show
\* history, history and ?, accepted or refused, leave the mode, the current
\* interface, the hostname and every interface as they were; ? resolves to the
\* help handler, without error, in every mode.
C32_InspectionChangesNothing ==
    [][ (op' = "Readline" /\ line' \in InspectLines) =>
           /\ sim'.mode = sim.mode
           /\ sim'.currentInterface = sim.currentInterface
           /\ sim'.hostname = sim.hostname
           /\ sim'.runningConfig = sim.runningConfig
           /\ (line' = "?" => invoked' = "doHelp" /\ err' = NoErr) ]_vars

\* show version has answered on a renamed device that holds an interface
C32_Witness ==
    /\ op = "Readline"
    /\ line = "show version"
    /\ err = NoErr
    /\ sim.runningConfig.Hostname = "Edge1"
    /\ Interfaces # <<>>

(***************************************************************************)
(* C33: the registry.                                                      *)
(***************************************************************************)
\* the index of the first registration entry with the name
FirstEntry(name) ==
    CHOOSE i \in 1..Len(commands) :
        /\ commands[i].Name = name
        /\ \A j \in 1..(i - 1) : commands[j].Name # name

\* no element occurs twice in the sequence
NoDuplicates(seq) == \A i, j \in 1..Len(seq) : seq[i] = seq[j] => i = j

\* the registry holds one definition per registered name, with the handler of
\* the first entry and the merged modes, and the per-mode index agrees with it
RegistryAsRegistered(s) ==
    /\ DOMAIN s.definedCommands = {commands[i].Name : i \in 1..Len(commands)}
    /\ \A n \in DOMAIN s.definedCommands :
          /\ s.definedCommands[n].Name = n
          /\ s.definedCommands[n].Handler = commands[FirstEntry(n)].Handler
          /\ NoDuplicates(s.definedCommands[n].Modes)
          /\ Range(s.definedCommands[n].Modes) = ValidModes(n)
    /\ DOMAIN s.modeCommandMap = Modes
    /\ \A m \in Modes :
          s.modeCommandMap[m] = {n \in DOMAIN s.definedCommands : m \in ValidModes(n)}

\* C33: after construction the registry holds exactly one definition per
\* command name, whose handler is that of the first registration entry with the
\* name and whose modes are the duplicate-free union of the modes of all the
\* entries with the name; the per-mode index offers a name in mode m exactly
\* when m is in that union; and no step changes either structure.
C33_Registry ==
    /\ [] RegistryAsRegistered(sim)
    /\ [][ /\ sim'.definedCommands = sim.definedCommands
           /\ sim'.modeCommandMap = sim.modeCommandMap ]_vars

\* lines have brought the session into InterfaceConfig, and exit, registered
\* twice, is still the one definition bound to doExitQuit and offered there
C33_Witness ==
    /\ op = "Readline"
    /\ sim.mode = ModeInterfaceConfig
    /\ sim.definedCommands["exit"].Handler = "doExitQuit"
    /\ sim.definedCommands["exit"].Modes =
          <<ModeUserExec, ModePrivExec, ModeGlobalConfig, ModeInterfaceConfig>>
    /\ "exit" \in sim.modeCommandMap[ModeInterfaceConfig]

(***************************************************************************)
(* C34: the listing order and the set of names (checked under SpecShow).   *)
(* A Go map keeps no creation order: two sessions that hold the same       *)
(* interfaces differ, for the listing, in the order the range yields.      *)
(***************************************************************************)
\* the names in the order the command of the line lists them when the map
\* yields its keys in the order iter
ListedUnder(s, ln, iter) ==
    IF ln = "show running-config"
    THEN RunningConfigNames(showRunningConfig(s, <<>>, iter).out)
    ELSE BriefNames(showIPInterfaceBrief(s, <<>>, iter).out)

\* C34: the order in which show running-config and show ip interface brief
\* list the interfaces is a function of the set of interface names alone: the
\* listing a command has just given is the one it gives for every order in
\* which the map may yield the same names, equal sort keys included.
C34_OrderFromNamesAlone ==
    (op = "Readline" /\ line \in ListingLines /\ err = NoErr) =>
        \A iter \in iterationOrders(sim) :
            ListedUnder(sim, line, iter) =
                (IF line = "show running-config"
                 THEN RunningConfigNames(out) ELSE BriefNames(out))

(***************************************************************************)
(* Configuration changes and the mode (C35, C36, C37).  SpecConfig renames *)
(* the device and configures two interfaces, with every configuration line *)
(* entered in every mode.                                                  *)
(***************************************************************************)
ConfigSpecLines ==
    {"enable", "disable", "conf t", "end", "exit",
     "hostname Edge1", "no hostname",
     "interface f0/1", "int g0/0",
     "ip address 10.0.0.1 255.255.255.0", "ip address 10.0.0.1 255.0.0.256",
     "shutdown", "no shutdown", "no ip address"}

\* the scripts of SpecConfig: GigabitEthernet0/0 is addressed and enabled, and
\* then FastEthernet0/1 is enabled and shut down, or GigabitEthernet0/0 is
\* entered again and the device renamed
ConfigScripts ==
    {<<"enable", "conf t", "int g0/0", "ip address 10.0.0.1 255.255.255.0",
       "no shutdown", "end", "conf t", "interface f0/1", "no shutdown", "shutdown">>,
     <<"enable", "conf t", "int g0/0", "ip address 10.0.0.1 255.255.255.0",
       "no shutdown", "end", "conf t", "int g0/0", "end", "conf t", "hostname Edge1">>}
\* the run loop reads one of the lines of SpecConfig
ConfigSpecLine == \E raw \in ConfigSpecLines : RunLine(raw, ConfigScripts, MaxFree)

NextConfig == ConfigSpecLine \/ ReadEOF

SpecConfig == Init /\ [][NextConfig]_vars

\* C35: a line processed in InterfaceConfig changes at most the fields of the
\* interface named by currentInterface: the hostname, the set of interfaces
\* and every field of every other interface are unchanged.
C35_OnlyCurrentInterface ==
    [][ (op' = "Readline" /\ sim.mode = ModeInterfaceConfig) =>
           /\ sim'.runningConfig.Hostname = sim.runningConfig.Hostname
           /\ DOMAIN sim'.runningConfig.Interfaces = DOMAIN Interfaces
           /\ \A n \in DOMAIN Interfaces \ {sim.currentInterface} :
                 sim'.runningConfig.Interfaces[n] = Interfaces[n] ]_vars

\* shutdown has taken FastEthernet0/1 down while GigabitEthernet0/0 is up
C35_Witness ==
    /\ op = "Readline"
    /\ line = "shutdown" /\ err = NoErr
    /\ sim.currentInterface = "FastEthernet0/1"
    /\ Interfaces["FastEthernet0/1"].AdminStatus = "down"
    /\ "GigabitEthernet0/0" \in DOMAIN Interfaces
    /\ Interfaces["GigabitEthernet0/0"].Status = "up"

\* C36: the configuration is gated by the mode: no step taken in UserExec or
\* PrivilegedExec changes the hostname or any interface; the hostname changes
\* only on a line processed in GlobalConfig; the fields of an interface that
\* exists change only on a line processed in InterfaceConfig, and interfaces
\* are created only in GlobalConfig.  UserExec is left only by an accepted
\* enable and the exec modes are left for a configuration mode only by an
\* accepted configure, so that a fresh session changes no configuration
\* before both have succeeded.
C36_GatedByMode ==
    [][ /\ sim.mode \in {ModeUserExec, ModePrivExec} =>
              sim'.runningConfig = sim.runningConfig
        /\ sim'.runningConfig.Hostname # sim.runningConfig.Hostname =>
              (sim.mode = ModeGlobalConfig /\ op' = "Readline")
        /\ DOMAIN Interfaces \subseteq DOMAIN sim'.runningConfig.Interfaces
        /\ DOMAIN sim'.runningConfig.Interfaces # DOMAIN Interfaces =>
              (sim.mode = ModeGlobalConfig /\ op' = "Readline")
        /\ (\E n \in DOMAIN Interfaces :
               sim'.runningConfig.Interfaces[n] # Interfaces[n]) =>
              (sim.mode = ModeInterfaceConfig /\ op' = "Readline")
        /\ (sim.mode = ModeUserExec /\ sim'.mode # ModeUserExec) =>
              (/\ sim'.mode = ModePrivExec /\ op' = "Readline"
               /\ resolved' = "enable" /\ err' = NoErr)
        /\ (sim.mode = ModePrivExec
              /\ sim'.mode \in {ModeGlobalConfig, ModeInterfaceConfig}) =>
              (/\ sim'.mode = ModeGlobalConfig /\ op' = "Readline"
               /\ resolved' = "configure" /\ err' = NoErr) ]_vars

\* hostname Edge1 has been refused in PrivilegedExec: the device that holds a
\* configured interface keeps its name
C36_Witness ==
    /\ op = "Readline"
    /\ line = "hostname Edge1"
    /\ sim.mode = ModePrivExec
    /\ err.kind = ErrInvalidInput
    /\ sim.runningConfig.Hostname = "Router"
    /\ \E n \in DOMAIN Interfaces : Interfaces[n].IPAddress # ""

\* C37: interface <spec> for an interface that exists only rebinds the
\* current interface and enters InterfaceConfig: the record of the interface,
\* like everything else of the configuration, is kept; so leaving
\* InterfaceConfig and entering the same interface again gives the state back,
\* with the interface line recorded in the history.
C37_ReenteringPreserves ==
    /\ [][ (op' = "Readline" /\ invoked' = "doInterface" /\ err' = NoErr
              /\ sim'.currentInterface \in DOMAIN Interfaces) =>
              sim' = [Recorded(sim, line') EXCEPT
                         !.mode = ModeInterfaceConfig,
                         !.currentInterface = sim'.currentInterface] ]_vars
    /\ [] ((~terminated /\ sim.mode = ModeInterfaceConfig) =>
              LET left == doExitMode(sim, <<>>).sim
                  back == runLine(left, "interface " \o sim.currentInterface, NoRuntime).res
              IN /\ left.mode = ModeGlobalConfig
                 /\ back.err = NoErr
                 /\ back.sim = Recorded(sim, "interface " \o sim.currentInterface))

\* interface has entered an interface that had been given an address and
\* brought up before: it still has both
C37_Witness ==
    /\ op = "Readline"
    /\ invoked = "doInterface" /\ err = NoErr
    /\ sim.mode = ModeInterfaceConfig
    /\ Interfaces[sim.currentInterface].IPAddress = "10.0.0.1"
    /\ Interfaces[sim.currentInterface].Status = "up"

(***************************************************************************)
(* C38: the keys of the Interfaces map (checked under SpecInterface, whose *)
(* lines take the pattern path and the two-argument path of doInterface).  *)
(***************************************************************************)
\* text is digits, one slash, digits
SlotSlashPort(text) ==
    LET slashes == {i \in 1..Len(text) : Char(text, i) = "/"}
    IN /\ Cardinality(slashes) = 1
       /\ \A i \in 1..Len(text) : i \in slashes \/ Char(text, i) \in DigitSet
       /\ 1 \notin slashes /\ Len(text) \notin slashes

\* name is GigabitEthernet, FastEthernet or Ethernet followed by digits/digits
IsCanonicalKey(name) ==
    \E base \in {"GigabitEthernet", "FastEthernet", "Ethernet"} :
        /\ HasPrefix(name, base)
        /\ SlotSlashPort(SubSeq(name, Len(base) + 1, Len(name)))

\* C38: every key of the Interfaces map is GigabitEthernet, FastEthernet or
\* Ethernet followed by digits/digits, whatever was typed after interface, the
\* two-argument path included; so the sort key of a stored interface is never
\* the one of a non-matching name.
C38_CanonicalKeys ==
    \A n \in DOMAIN Interfaces :
        /\ IsCanonicalKey(n)
        /\ sortInterfaceKey(n)[1] \in {1, 2, 99}
        /\ sortKeyMatchFrom(n, 1) # <<>>

\* interface g-x 0/0, which the pattern does not match, has been accepted on
\* the two-argument path and stored as GigabitEthernet0/0
C38_Witness ==
    /\ op = "Readline"
    /\ line = "interface g-x 0/0" /\ err = NoErr
    /\ matchInterfaceInput("g-x0/0") = <<>>
    /\ sim.currentInterface = "GigabitEthernet0/0"
    /\ IsCanonicalKey(sim.currentInterface)
    /\ sim.currentInterface \in DOMAIN Interfaces
====
